---------------------------- MODULE Spec2Model ----------------------------
(***************************************************************************)
(* flowmind: plan validator (core/plan_validator.py), plan executor        *)
(* (core/executor.py) and the /plan pipeline (api/routes.py).              *)
(*                                                                         *)
(* Strings are sequences of one-character strings, so that strip(), str()  *)
(* and the reference pattern are computed and not assumed.  JSON values    *)
(* are tagged records.  Step indices are zero-based as in the source.      *)
(***************************************************************************)
EXTENDS Integers, Sequences, FiniteSets, TLC

VARIABLES
    plan_doc,      \* the plan document handed to validate_plan / execute
    validation,    \* the ValidationResult (computed, or supplied by a direct caller)
    mode,          \* "pipeline" (create_plan), "execute" (execute_plan) or "direct" (a call of execute)
    pc,            \* position of the request
    order,         \* execute's local execution_order
    idx,           \* zero-based position of the for loop in execution_order
    context,       \* execute's context: effective id -> recorded outputs
    step_results,  \* execute's step_results list
    execution,     \* the ExecutionResult, NoExecution before it exists
    active,        \* the invocation in progress, as a sequence of length 0 or 1
    calls,         \* history: every action invocation started, in order, with its fault
                   \* or its return value
    atoms_registry, \* routes.py _atoms_registry: <<>> (None) or <<the registry>>
    request,       \* the body of a POST /execute request (plan, validation, user_inputs)
    threads,       \* concurrent requests: worker thread -> the locals of its handler
    loads          \* history: the number of calls of load_atoms_registry

vars == <<plan_doc, validation, mode, pc, order, idx, context, step_results,
          execution, active, calls, atoms_registry, request, threads, loads>>

-----------------------------------------------------------------------------
(* Bounds of the model *)

\* most steps in a generated plan
MaxSteps == 3
\* most dependency entries (depends_on entries plus input references) in a generated plan
MaxEdges == 2
\* longest execution_order a direct caller supplies
MaxOrder == 2
\* worker threads that serve requests at the same time
MaxThreads == 2

-----------------------------------------------------------------------------
(* Strings *)

IsSpace(c) == c = " "

RECURSIVE LStrip(_)
LStrip(s) == IF s # <<>> /\ IsSpace(Head(s)) THEN LStrip(Tail(s)) ELSE s

RECURSIVE RStrip(_)
RStrip(s) ==
    IF s # <<>> /\ IsSpace(s[Len(s)]) THEN RStrip(SubSeq(s, 1, Len(s) - 1)) ELSE s

\* str.strip()
Strip(s) == RStrip(LStrip(s))

Digit(d) == CASE d = 0 -> "0" [] d = 1 -> "1" [] d = 2 -> "2" [] d = 3 -> "3"
              [] d = 4 -> "4" [] d = 5 -> "5" [] d = 6 -> "6" [] d = 7 -> "7"
              [] d = 8 -> "8" [] d = 9 -> "9"

\* str(index) for index >= 0
RECURSIVE IntToStr(_)
IntToStr(n) == IF n < 10 THEN <<Digit(n)>> ELSE IntToStr(n \div 10) \o <<Digit(n % 10)>>

\* first position p >= from with s[p] in stop, or Len(s) + 1
RECURSIVE FindFirst(_, _, _)
FindFirst(s, from, stop) ==
    IF from > Len(s) \/ s[from] \in stop THEN from ELSE FindFirst(s, from + 1, stop)

OutputsLiteral == <<".", "o", "u", "t", "p", "u", "t", "s", ".">>

\* REF_PATTERN.match(s): <<>> when there is no match, else <<group 1, group 2>>
\*   ^\$\{([^}.]+)\.outputs\.([^}]+)\}$
RefMatch(s) ==
    LET n == Len(s)
        p == FindFirst(s, 3, {"}", "."})
        q == p + Len(OutputsLiteral)
    IN  IF /\ n >= 3 /\ s[1] = "$" /\ s[2] = "{"
           /\ p > 3 /\ q <= n - 1
           /\ SubSeq(s, p, q - 1) = OutputsLiteral
           /\ s[n] = "}"
           /\ \A k \in q..(n - 1) : s[k] # "}"
        THEN <<SubSeq(s, 3, p - 1), SubSeq(s, q, n - 1)>>
        ELSE <<>>

-----------------------------------------------------------------------------
(* JSON values *)

Absent == [t |-> "absent"]                 \* the key is not in the mapping
Null == [t |-> "null"]
Str(s) == [t |-> "str", s |-> s]
Num(n) == [t |-> "num", n |-> n]
Bool(b) == [t |-> "bool", b |-> b]
Lst(l) == [t |-> "list", l |-> l]
\* a mapping: a sequence of [k, v] entries with distinct keys, in insertion order
Obj(m) == [t |-> "obj", m |-> m]
Entry(k, v) == [k |-> k, v |-> v]

IsStr(v) == v.t = "str"
IsList(v) == v.t = "list"
IsObj(v) == v.t = "obj"
Has(v) == v.t # "absent"                   \* "key" in mapping
Get(v) == IF v.t = "absent" THEN Null ELSE v   \* mapping.get("key")

\* Python truthiness of a value
Truthy(v) ==
    CASE v.t = "absent" -> FALSE
      [] v.t = "null" -> FALSE
      [] v.t = "str" -> v.s # <<>>
      [] v.t = "num" -> v.n # 0
      [] v.t = "bool" -> v.b
      [] v.t = "list" -> v.l # <<>>
      [] v.t = "obj" -> v.m # <<>>
      [] OTHER -> TRUE

Keys(m) == {m[k].k : k \in DOMAIN m}
Lookup(m, key) == LET k == CHOOSE k \in DOMAIN m : m[k].k = key IN m[k].v

\* a step of plan.steps that is an object; a step that is not one is another value
Step(step_id, id, target, inputs, depends_on) ==
    [t |-> "step", step_id |-> step_id, id |-> id, target |-> target,
     inputs |-> inputs, depends_on |-> depends_on]
IsStepObj(v) == v.t = "step"

\* the "plan" object and the plan document
PlanObj(steps, outputs) == [t |-> "plan", steps |-> steps, outputs |-> outputs]
Doc(target, plan) == [t |-> "doc", target |-> target, plan |-> plan]

-----------------------------------------------------------------------------
(* The capability registry and the importable atom modules.  Both are inputs *)
(* of the program: the registry has atoms with one, two and no declared      *)
(* outputs and one atom whose id does not follow package.domain.action.      *)

S_x == <<"x">>
S_y == <<"y">>
N_r == <<"r">>
N_s == <<"s">>

AtomOne == <<"g", ".", "p", ".", "q">>     \* one declared output
AtomTwo == <<"g", ".", "m", ".", "t">>     \* two declared outputs
AtomNone == <<"g", ".", "t", ".", "f">>    \* no declared output
AtomShort == <<"n", ".", "o">>             \* registered, but only two segments
AtomFree == <<"g", ".", "p", ".", "h">>    \* importable, but not registered
AtomGhost == <<"n", ".", "s", ".", "m">>   \* neither registered nor importable

InputDef(name, required) == [name |-> name, required |-> required]
OutputDef(name) == [name |-> name]
AtomDef(id, inputs, outputs) == [id |-> id, inputs |-> inputs, outputs |-> outputs]

RegistryIds == {AtomOne, AtomTwo, AtomNone, AtomShort}

Registry ==
    [a \in RegistryIds |->
        CASE a = AtomOne ->
               AtomDef(a, <<InputDef(S_x, TRUE), InputDef(S_y, FALSE)>>, <<OutputDef(N_r)>>)
          [] a = AtomTwo ->
               AtomDef(a, <<InputDef(S_x, TRUE)>>, <<OutputDef(N_r), OutputDef(N_s)>>)
          [] a = AtomNone ->
               AtomDef(a, <<InputDef(S_x, TRUE), InputDef(S_y, FALSE)>>, <<>>)
          [] a = AtomShort ->
               AtomDef(a, <<>>, <<>>)]

\* atoms_registry.get(atom_id): a sequence of length 0 (None) or 1
RegistryGet(registry, atom_id) ==
    IF atom_id \in DOMAIN registry THEN <<registry[atom_id]>> ELSE <<>>

\* names of the declared inputs / outputs of an atom definition
AtomInputDefs(atom) == atom.inputs
AtomOutputNames(atom) == {atom.outputs[k].name : k \in DOMAIN atom.outputs}

-----------------------------------------------------------------------------
(* plan_validator.py *)

\* an error: its code, the index of the step its path names (-1: none), the field the
\* path names, and the names (ids, keys) its message and path carry
Err(code, at, field, names) == [code |-> code, at |-> at, field |-> field, names |-> names]

\* _is_ref(value)
IsRef(v) == IsStr(v) /\ RefMatch(Strip(v.s)) # <<>>

\* _parse_ref(value): <<step id, output name>>
ParseRef(v) == RefMatch(Strip(v.s))

\* _step_identifier(step, index)
StepIdentifier(step, index) ==
    LET sid == Get(step.step_id)
    IN  IF IsStr(sid) /\ Strip(sid.s) # <<>> THEN Strip(sid.s) ELSE IntToStr(index)

\* concatenation of f[1] \o ... \o f[n] for a sequence f of sequences
RECURSIVE Flatten(_)
Flatten(f) == IF f = <<>> THEN <<>> ELSE Head(f) \o Flatten(Tail(f))

\* S1, S2: root target and plan
RootErrors(doc) ==
    (IF ~Has(doc.target) THEN <<Err("MISSING_FIELD", -1, "target", <<>>)>>
     ELSE IF ~IsStr(doc.target) THEN <<Err("INVALID_TYPE", -1, "target", <<>>)>>
     ELSE <<>>)
    \o
    (IF ~Has(doc.plan) THEN <<Err("MISSING_FIELD", -1, "plan", <<>>)>>
     ELSE IF doc.plan.t # "plan" THEN <<Err("INVALID_TYPE", -1, "plan", <<>>)>>
     ELSE <<>>)

\* plan = raw_plan if isinstance(raw_plan, dict) else {}; steps = plan.get("steps")
DocSteps(doc) == IF doc.plan.t = "plan" THEN Get(doc.plan.steps) ELSE Null
DocOutputs(doc) == IF doc.plan.t = "plan" THEN doc.plan.outputs ELSE Absent

\* S3: plan.steps non-empty array
StepsErrors(doc) ==
    LET steps == DocSteps(doc)
    IN  IF steps.t = "null" THEN <<Err("MISSING_FIELD", -1, "plan.steps", <<>>)>>
        ELSE IF ~IsList(steps) THEN <<Err("INVALID_TYPE", -1, "plan.steps", <<>>)>>
        ELSE IF Len(steps.l) = 0 THEN <<Err("EMPTY_STEPS", -1, "plan.steps", <<>>)>>
        ELSE <<>>

\* S4, S5, S6: the schema of the step at index i
StepSchemaErrors(step, i) ==
    IF ~IsStepObj(step) THEN <<Err("INVALID_TYPE", i, "", <<>>)>>
    ELSE
      (IF ~Has(step.id) THEN <<Err("MISSING_FIELD", i, "id", <<>>)>>
       ELSE IF ~IsStr(step.id) THEN <<Err("INVALID_TYPE", i, "id", <<>>)>>
       ELSE <<>>)
      \o
      (IF ~Has(step.target) THEN <<Err("MISSING_FIELD", i, "target", <<>>)>>
       ELSE IF ~IsStr(step.target) THEN <<Err("INVALID_TYPE", i, "target", <<>>)>>
       ELSE <<>>)
      \o
      (IF ~Has(step.inputs) THEN <<Err("MISSING_FIELD", i, "inputs", <<>>)>>
       ELSE IF ~IsObj(step.inputs) THEN <<Err("INVALID_TYPE", i, "inputs", <<>>)>>
       ELSE <<>>)
      \o
      (IF ~Has(step.step_id) THEN <<>>
       ELSE IF ~IsStr(step.step_id) THEN <<Err("INVALID_TYPE", i, "step_id", <<>>)>>
       ELSE IF Strip(step.step_id.s) = <<>> THEN <<Err("EMPTY_STEP_ID", i, "step_id", <<>>)>>
       ELSE <<>>)
      \o
      (IF Has(step.depends_on) /\ ~IsList(step.depends_on)
       THEN <<Err("INVALID_TYPE", i, "depends_on", <<>>)>>
       ELSE <<>>)

\* the loop of S4..S6 over plan.steps (a sequence of steps)
AllStepSchemaErrors(steps) ==
    Flatten([k \in DOMAIN steps |-> StepSchemaErrors(steps[k], k - 1)])

\* S7: plan.outputs
OutputsErrors(doc) ==
    LET outputs == DocOutputs(doc)
    IN  IF Has(outputs) /\ outputs.t # "null" /\ ~IsObj(outputs)
        THEN <<Err("INVALID_TYPE", -1, "plan.outputs", <<>>)>>
        ELSE <<>>

\* step_ids: the effective id of every step, in declaration order
StepIds(steps) == [k \in DOMAIN steps |-> StepIdentifier(steps[k], k - 1)]

\* faulty variant of DuplicateErrors: an id is compared with the previous one only
DuplicateErrorsAdjacent(step_ids) ==
    Flatten([k \in DOMAIN step_ids |->
        IF k > 1 /\ step_ids[k - 1] = step_ids[k]
        THEN <<Err("DUPLICATE_STEP_ID", k - 1, "step_id", <<step_ids[k]>>)>>
        ELSE <<>>])

\* U1: one error for each step whose id was seen at an earlier index
DuplicateErrors(step_ids) ==
    Flatten([k \in DOMAIN step_ids |->
        IF \E j \in 1..(k - 1) : step_ids[j] = step_ids[k]
        THEN <<Err("DUPLICATE_STEP_ID", k - 1, "step_id", <<step_ids[k]>>)>>
        ELSE <<>>])

\* id_to_index = {step_ids[i]: i ...}: the last index wins; -1 when the id is unknown
IdToIndex(step_ids, sid) ==
    IF \E k \in DOMAIN step_ids : step_ids[k] = sid
    THEN (CHOOSE k \in DOMAIN step_ids :
            /\ step_ids[k] = sid
            /\ \A j \in DOMAIN step_ids : step_ids[j] = sid => j <= k) - 1
    ELSE -1

\* faulty variant of StepBindingErrors: a blank string counts as a value
StepBindingErrorsNullOnly(step, i, registry) ==
    LET atom_id == Get(step.id)
        found == IF IsStr(atom_id) THEN RegistryGet(registry, atom_id.s) ELSE <<>>
        atom == found[1]
        defs == AtomInputDefs(atom)
        atom_inputs == {defs[k].name : k \in DOMAIN defs}
        inputs == IF Truthy(step.inputs) THEN step.inputs.m ELSE <<>>
        unknown == [k \in DOMAIN inputs |->
            IF inputs[k].k \notin atom_inputs
            THEN <<Err("UNKNOWN_INPUT_FIELD", i, "inputs.<key>", <<inputs[k].k>>)>>
            ELSE <<>>]
        missing == [k \in DOMAIN defs |->
            IF ~defs[k].required THEN <<>>
            ELSE IF defs[k].name \notin Keys(inputs)
            THEN <<Err("MISSING_REQUIRED_INPUT", i, "inputs", <<>>)>>
            ELSE LET val == Lookup(inputs, defs[k].name)
                 IN  IF val.t = "null"
                     THEN <<Err("MISSING_REQUIRED_INPUT", i, "inputs.<name>", <<defs[k].name>>)>>
                     ELSE <<>>]
    IN  IF ~Truthy(atom_id) THEN <<>>
        ELSE IF found = <<>> THEN <<Err("UNKNOWN_ATOM_ID", i, "id", <<>>)>>
        ELSE Flatten(unknown) \o Flatten(missing)

\* A1, A2, A3 for the step at index i
StepBindingErrors(step, i, registry) ==
    LET atom_id == Get(step.id)
        found == IF IsStr(atom_id) THEN RegistryGet(registry, atom_id.s) ELSE <<>>
        atom == found[1]
        defs == AtomInputDefs(atom)
        atom_inputs == {defs[k].name : k \in DOMAIN defs}
        inputs == IF Truthy(step.inputs) THEN step.inputs.m ELSE <<>>
        unknown == [k \in DOMAIN inputs |->
            IF inputs[k].k \notin atom_inputs
            THEN <<Err("UNKNOWN_INPUT_FIELD", i, "inputs.<key>", <<inputs[k].k>>)>>
            ELSE <<>>]
        missing == [k \in DOMAIN defs |->
            IF ~defs[k].required THEN <<>>
            ELSE IF defs[k].name \notin Keys(inputs)
            THEN <<Err("MISSING_REQUIRED_INPUT", i, "inputs", <<>>)>>
            ELSE LET val == Lookup(inputs, defs[k].name)
                 IN  IF \/ val.t = "null"
                        \/ (IsStr(val) /\ Strip(val.s) = <<>> /\ ~IsRef(val))
                     THEN <<Err("MISSING_REQUIRED_INPUT", i, "inputs.<name>", <<defs[k].name>>)>>
                     ELSE <<>>]
    IN  IF ~Truthy(atom_id) THEN <<>>
        ELSE IF found = <<>> THEN <<Err("UNKNOWN_ATOM_ID", i, "id", <<>>)>>
        ELSE Flatten(unknown) \o Flatten(missing)

BindingErrors(steps, registry) ==
    Flatten([k \in DOMAIN steps |-> StepBindingErrors(steps[k], k - 1, registry)])

\* faulty variant of AddEdge: the edge is stored from the dependent to its dependency
AddEdgeReversed(graph, j, i) == [graph EXCEPT ![i] = Append(@, j)]

\* faulty variant of AddEdge: an edge from a step to itself is dropped
AddEdgeSkipSelf(graph, j, i) == IF i = j THEN graph ELSE [graph EXCEPT ![j] = Append(@, i)]

\* faulty variant of AddEdge: an edge the successor list already holds is not added
AddEdgeOnce(graph, j, i) ==
    IF \E k \in DOMAIN graph[j] : graph[j][k] = i THEN graph ELSE [graph EXCEPT ![j] = Append(@, i)]

\* graph[j].append(i); in_degree is recomputed before the sort, so it is not kept here
AddEdge(graph, j, i) == [graph EXCEPT ![j] = Append(@, i)]

InSeq(x, s) == \E k \in DOMAIN s : s[k] = x

\* the depends_on loop of step i: acc is [graph, errors]
RECURSIVE AddExplicit(_, _, _, _)
AddExplicit(acc, deps, i, step_ids) ==
    IF deps = <<>> THEN acc
    ELSE LET dep == Head(deps)
             j == IdToIndex(step_ids, Strip(dep.s))
             next == IF ~IsStr(dep) THEN acc
                     ELSE IF j = -1
                     THEN [acc EXCEPT !.errors =
                             Append(@, Err("UNKNOWN_DEPENDENCY", i, "depends_on", <<Strip(dep.s)>>))]
                     ELSE [acc EXCEPT !.graph = AddEdge(@, j, i)]
         IN  AddExplicit(next, Tail(deps), i, step_ids)

\* faulty variant of RefOutputs: the name is looked up among the outputs of every atom
RefOutputsAnyAtom(steps, ref_index, registry) ==
    UNION {AtomOutputNames(registry[a]) : a \in DOMAIN registry}

\* the declared output names of the atom bound to the step at index ref_index
RefOutputs(steps, ref_index, registry) ==
    LET ref_id == Get(steps[ref_index + 1].id)
        found == IF IsStr(ref_id) THEN RegistryGet(registry, ref_id.s) ELSE <<>>
    IN  IF found = <<>> THEN {} ELSE AtomOutputNames(found[1])

\* the inputs loop of step i
RECURSIVE AddImplicit(_, _, _, _, _, _)
AddImplicit(acc, entries, i, steps, step_ids, registry) ==
    IF entries = <<>> THEN acc
    ELSE LET val == Head(entries).v
             parsed == ParseRef(val)
             ref_index == IdToIndex(step_ids, parsed[1])
             next ==
               IF ~IsRef(val) THEN acc
               ELSE IF ref_index = -1
               THEN [acc EXCEPT !.errors =
                       Append(@, Err("UNKNOWN_STEP_REF", i, "inputs", <<parsed[1]>>))]
               ELSE IF parsed[2] \notin RefOutputs(steps, ref_index, registry)
               THEN [acc EXCEPT !.errors =
                       Append(@, Err("UNKNOWN_OUTPUT_FIELD", i, "inputs", <<parsed[1], parsed[2]>>))]
               ELSE IF ~InSeq(i, acc.graph[ref_index])
               THEN [acc EXCEPT !.graph = AddEdge(@, ref_index, i)]
               ELSE acc
         IN  AddImplicit(next, Tail(entries), i, steps, step_ids, registry)

\* the body of the graph loop for the step at index i
AddStepEdges(acc, i, steps, step_ids, registry) ==
    LET step == steps[i + 1]
        deps == IF Truthy(step.depends_on) THEN step.depends_on.l ELSE <<>>
        inputs == IF Truthy(step.inputs) THEN step.inputs.m ELSE <<>>
    IN  AddImplicit(AddExplicit(acc, deps, i, step_ids), inputs, i, steps, step_ids, registry)

\* graph and errors after the graph loop has handled the steps at indices 0..i-1
RECURSIVE BuildGraphTo(_, _, _, _)
BuildGraphTo(i, steps, step_ids, registry) ==
    IF i = 0 THEN [graph |-> [u \in 0..(Len(steps) - 1) |-> <<>>], errors |-> <<>>]
    ELSE AddStepEdges(BuildGraphTo(i - 1, steps, step_ids, registry), i - 1, steps, step_ids, registry)

BuildGraph(steps, step_ids, registry) == BuildGraphTo(Len(steps), steps, step_ids, registry)

\* number of occurrences of x in the sequence s
RECURSIVE Count(_, _)
Count(x, s) == IF s = <<>> THEN 0 ELSE (IF Head(s) = x THEN 1 ELSE 0) + Count(x, Tail(s))

RECURSIVE SumOver(_, _)
SumOver(f, S) == IF S = {} THEN 0 ELSE LET u == CHOOSE u \in S : TRUE IN f[u] + SumOver(f, S \ {u})

\* in_degree recomputed from the successor lists
InDegree(graph) ==
    [v \in DOMAIN graph |-> SumOver([u \in DOMAIN graph |-> Count(v, graph[u])], DOMAIN graph)]

\* the indices lo..hi-1 with in_degree 0, ascending
RECURSIVE ZeroFrom(_, _, _)
ZeroFrom(in_degree, lo, hi) ==
    IF lo >= hi THEN <<>>
    ELSE (IF in_degree[lo] = 0 THEN <<lo>> ELSE <<>>) \o ZeroFrom(in_degree, lo + 1, hi)

\* queue = [i for i in range(len(steps)) if in_degree[i] == 0]
SeedQueue(in_degree, n) == ZeroFrom(in_degree, 0, n)

\* faulty variant of Relax: v is enqueued when its in_degree has come down to one or zero
RECURSIVE RelaxNearZero(_, _)
RelaxNearZero(st, succs) ==
    IF succs = <<>> THEN st
    ELSE LET v == Head(succs)
             d == st.in_degree[v] - 1
         IN  RelaxNearZero([queue |-> IF d \in {0, 1} THEN Append(st.queue, v) ELSE st.queue,
                            in_degree |-> [st.in_degree EXCEPT ![v] = d]],
                           Tail(succs))

\* for v in graph[u]: in_degree[v] -= 1; enqueue v when it reaches 0.  st is [queue, in_degree]
RECURSIVE Relax(_, _)
Relax(st, succs) ==
    IF succs = <<>> THEN st
    ELSE LET v == Head(succs)
             d == st.in_degree[v] - 1
         IN  Relax([queue |-> IF d = 0 THEN Append(st.queue, v) ELSE st.queue,
                    in_degree |-> [st.in_degree EXCEPT ![v] = d]],
                   Tail(succs))

\* faulty variant of KahnLoop: u = queue.pop() takes the newest entry of the queue
RECURSIVE KahnLoopLifo(_, _, _, _)
KahnLoopLifo(graph, queue, in_degree, sorted) ==
    IF queue = <<>> THEN sorted
    ELSE LET u == queue[Len(queue)]
             st == Relax([queue |-> SubSeq(queue, 1, Len(queue) - 1), in_degree |-> in_degree],
                         graph[u])
         IN  KahnLoopLifo(graph, st.queue, st.in_degree, Append(sorted, u))

\* while queue: u = queue.pop(0); order.append(u); ...
RECURSIVE KahnLoop(_, _, _, _)
KahnLoop(graph, queue, in_degree, sorted) ==
    IF queue = <<>> THEN sorted
    ELSE LET u == Head(queue)
             st == Relax([queue |-> Tail(queue), in_degree |-> in_degree], graph[u])
         IN  KahnLoop(graph, st.queue, st.in_degree, Append(sorted, u))

\* D2: the indices in the order the sort places them
TopoOrder(graph) ==
    LET in_degree == InDegree(graph)
    IN  KahnLoop(graph, SeedQueue(in_degree, Cardinality(DOMAIN graph)), in_degree, <<>>)

\* faulty variant of CycleNodes: every step of the plan is named
CycleNodesAll(step_ids, sorted) == step_ids

\* faulty variant of CycleNodes: the steps the sort has placed are named
CycleNodesPlaced(step_ids, sorted) ==
    LET keep(k) == \E p \in DOMAIN sorted : sorted[p] = k - 1
    IN  Flatten([k \in DOMAIN step_ids |-> IF keep(k) THEN <<step_ids[k]>> ELSE <<>>])

\* the ids of the indices 0..n-1 that are not in sorted, ascending
CycleNodes(step_ids, sorted) ==
    LET keep(k) == ~InSeq(k - 1, sorted)
    IN  Flatten([k \in DOMAIN step_ids |-> IF keep(k) THEN <<step_ids[k]>> ELSE <<>>])

\* faulty variant of Invalid: the rejection carries an (empty) execution_order
InvalidWithOrder(errors) == [valid |-> FALSE, errors |-> errors, execution_order |-> <<>>]

Invalid(errors) == [valid |-> FALSE, errors |-> errors]
Valid(execution_order) ==
    [valid |-> TRUE, warnings |-> <<>>, execution_order |-> execution_order]

\* faulty variant of ValidateSemantics: the length check after the sort is left out
ValidateSemanticsUnchecked(steps, registry) ==
    LET step_ids == StepIds(steps)
        built == BuildGraph(steps, step_ids, registry)
        errors == DuplicateErrors(step_ids) \o BindingErrors(steps, registry) \o built.errors
        sorted == TopoOrder(built.graph)
    IN  IF errors # <<>> THEN Invalid(errors)
        ELSE Valid([k \in DOMAIN sorted |-> step_ids[sorted[k] + 1]])

\* faulty variant of ValidateSemantics: each semantic stage returns its own errors
ValidateSemanticsFailFast(steps, registry) ==
    LET step_ids == StepIds(steps)
        built == BuildGraph(steps, step_ids, registry)
        sorted == TopoOrder(built.graph)
    IN  IF DuplicateErrors(step_ids) # <<>> THEN Invalid(DuplicateErrors(step_ids))
        ELSE IF BindingErrors(steps, registry) # <<>> THEN Invalid(BindingErrors(steps, registry))
        ELSE IF built.errors # <<>> THEN Invalid(built.errors)
        ELSE IF Len(sorted) # Len(steps)
        THEN Invalid(<<Err("CIRCULAR_DEPENDENCY", -1, "plan.steps", CycleNodes(step_ids, sorted))>>)
        ELSE Valid([k \in DOMAIN sorted |-> step_ids[sorted[k] + 1]])

\* validate_plan from the U1 stage on: steps is the sequence of (schema-valid) steps
ValidateSemantics(steps, registry) ==
    LET step_ids == StepIds(steps)
        built == BuildGraph(steps, step_ids, registry)
        errors == DuplicateErrors(step_ids) \o BindingErrors(steps, registry) \o built.errors
        sorted == TopoOrder(built.graph)
    IN  IF errors # <<>> THEN Invalid(errors)
        ELSE IF Len(sorted) # Len(steps)
        THEN Invalid(<<Err("CIRCULAR_DEPENDENCY", -1, "plan.steps", CycleNodes(step_ids, sorted))>>)
        ELSE Valid([k \in DOMAIN sorted |-> step_ids[sorted[k] + 1]])

\* faulty variant of ValidatePlan: the error of plan.outputs does not stop the checks
ValidatePlanPastOutputs(doc, registry) ==
    IF doc.t # "doc" THEN Invalid(<<Err("INVALID_TYPE", -1, "", <<>>)>>)
    ELSE IF RootErrors(doc) \o StepsErrors(doc) # <<>>
    THEN Invalid(RootErrors(doc) \o StepsErrors(doc))
    ELSE LET steps == DocSteps(doc).l
             schema == AllStepSchemaErrors(steps)
             semantic == ValidateSemantics(steps, registry)
         IN  IF schema # <<>> THEN Invalid(schema \o OutputsErrors(doc))
             ELSE IF OutputsErrors(doc) = <<>> THEN semantic
             ELSE Invalid(OutputsErrors(doc) \o (IF semantic.valid THEN <<>> ELSE semantic.errors))

\* faulty variant of ValidatePlan: the errors of the root and of plan.steps do not
\* stop the per-step checks when plan.steps is an array
ValidatePlanPastRoot(doc, registry) ==
    IF doc.t # "doc" THEN Invalid(<<Err("INVALID_TYPE", -1, "", <<>>)>>)
    ELSE IF ~IsList(DocSteps(doc))
    THEN Invalid(RootErrors(doc) \o StepsErrors(doc))
    ELSE LET steps == DocSteps(doc).l
             schema == RootErrors(doc) \o StepsErrors(doc)
                           \o AllStepSchemaErrors(steps) \o OutputsErrors(doc)
         IN  IF schema # <<>> THEN Invalid(schema)
             ELSE ValidateSemantics(steps, registry)

\* validate_plan(plan_doc, atoms_registry)
ValidatePlan(doc, registry) ==
    IF doc.t # "doc" THEN Invalid(<<Err("INVALID_TYPE", -1, "", <<>>)>>)
    ELSE IF RootErrors(doc) \o StepsErrors(doc) # <<>>
    THEN Invalid(RootErrors(doc) \o StepsErrors(doc))
    ELSE LET steps == DocSteps(doc).l
             schema == AllStepSchemaErrors(steps) \o OutputsErrors(doc)
         IN  IF schema # <<>> THEN Invalid(schema)
             ELSE ValidateSemantics(steps, registry)

-----------------------------------------------------------------------------
(* executor.py *)

\* mapping.get(key) on a sequence of entries: a sequence of length 0 (None) or 1
DictGet(m, key) ==
    IF \E k \in DOMAIN m : m[k].k = key THEN <<Lookup(m, key)>> ELSE <<>>

\* mapping[key] = v: an existing key keeps its place, a new key goes last
DictSet(m, key, v) ==
    IF \E k \in DOMAIN m : m[k].k = key
    THEN [k \in DOMAIN m |-> IF m[k].k = key THEN Entry(key, v) ELSE m[k]]
    ELSE Append(m, Entry(key, v))

\* an error string "[code] message": its code, its text and the names the text carries
ErrorStr(code, text, names) == [code |-> code, text |-> text, names |-> names]
NoError == ErrorStr("", "None", <<>>)

\* _step_failure(step_id, atom_id, code, message)
StepFailure(step_id, atom_id, code, text, names) ==
    [step_id |-> step_id, atom_id |-> atom_id, status |-> "failed", outputs |-> <<>>,
     error |-> ErrorStr(code, text, names)]

StepCompleted(step_id, atom_id, outputs) ==
    [step_id |-> step_id, atom_id |-> atom_id, status |-> "completed", outputs |-> outputs,
     error |-> NoError]

\* str.split(sep)
RECURSIVE Split(_, _)
Split(s, sep) ==
    LET p == FindFirst(s, 1, {sep})
    IN  IF p > Len(s) THEN <<s>>
        ELSE <<SubSeq(s, 1, p - 1)>> \o Split(SubSeq(s, p + 1, Len(s)), sep)

\* sep.join(parts)
RECURSIVE Join(_, _)
Join(parts, sep) ==
    IF parts = <<>> THEN <<>>
    ELSE IF Len(parts) = 1 THEN parts[1]
    ELSE parts[1] \o <<sep>> \o Join(Tail(parts), sep)

\* a callable of an atoms module: its name and its required and optional parameters
Callable(name, required, optional) == [name |-> name, required |-> required, optional |-> optional]

\* the importable modules atoms.<package>.<domain> and the callables each defines
AtomModules ==
    {[package |-> <<"g">>, domain |-> <<"p">>,
      callables |-> {Callable(<<"q">>, {S_x}, {S_y}), Callable(<<"h">>, {S_x}, {})}],
     [package |-> <<"g">>, domain |-> <<"m">>, callables |-> {Callable(<<"t">>, {S_x}, {})}],
     [package |-> <<"g">>, domain |-> <<"t">>, callables |-> {Callable(<<"f">>, {S_x}, {S_y})}]}

\* what a callable may return when its call binds
ReturnValues(fn) ==
    CASE fn.name = <<"q">> -> {Bool(TRUE), Bool(FALSE)}
      [] fn.name = <<"t">> -> {Obj(<<Entry(N_r, Num(1)), Entry(N_s, Num(2))>>),
                               Obj(<<Entry(N_r, Num(1))>>), Num(7)}
      [] OTHER -> {Null}

\* _resolve_callable(atom_id): [ok, fn] or [ok, error code and text]
ResolveCallable(atom_id) ==
    LET parts == Split(atom_id, ".")
        action == Join(SubSeq(parts, 3, Len(parts)), ".")
        mods == {m \in AtomModules : m.package = parts[1] /\ m.domain = parts[2]}
        module == CHOOSE m \in mods : TRUE
        fns == {f \in module.callables : f.name = action}
    IN  IF Len(parts) < 3
        THEN [ok |-> FALSE, code |-> "UNRESOLVED_ATOM", text |-> "does not follow convention"]
        ELSE IF mods = {}
        THEN [ok |-> FALSE, code |-> "UNRESOLVED_ATOM", text |-> "cannot import module"]
        ELSE IF fns = {}
        THEN [ok |-> FALSE, code |-> "UNRESOLVED_ATOM", text |-> "no callable"]
        ELSE [ok |-> TRUE, fn |-> CHOOSE f \in fns : TRUE]

\* _resolve_inputs(inputs, context): [ok, resolved] or [ok, error]; the first failing
\* reference in the order of the inputs raises
RECURSIVE ResolveInputsFrom(_, _, _)
ResolveInputsFrom(entries, ctx, resolved) ==
    IF entries = <<>> THEN [ok |-> TRUE, resolved |-> resolved]
    ELSE LET key == Head(entries).k
             value == Head(entries).v
             m == RefMatch(Strip(value.s))
             step_outputs == DictGet(ctx, m[1])
         IN  IF IsStr(value) /\ m # <<>>
             THEN IF step_outputs = <<>>
                  THEN [ok |-> FALSE, code |-> "UNRESOLVED_REF", text |-> "no outputs in context",
                        names |-> <<m[1]>>]
                  ELSE IF DictGet(step_outputs[1], m[2]) = <<>>
                  THEN [ok |-> FALSE, code |-> "UNRESOLVED_REF", text |-> "no such output",
                        names |-> <<m[1], m[2]>>]
                  ELSE ResolveInputsFrom(Tail(entries), ctx,
                                         DictSet(resolved, key, DictGet(step_outputs[1], m[2])[1]))
             ELSE ResolveInputsFrom(Tail(entries), ctx, DictSet(resolved, key, value))

\* faulty variant of ResolveInputs: a reference the context cannot resolve is passed
\* through as a literal
ResolveInputsLenient(inputs, ctx) ==
    [ok |-> TRUE,
     resolved |->
        [j \in DOMAIN inputs |->
            LET m == RefMatch(Strip(inputs[j].v.s))
                step_outputs == DictGet(ctx, m[1])
            IN  IF IsStr(inputs[j].v) /\ m # <<>> /\ step_outputs # <<>>
                   /\ DictGet(step_outputs[1], m[2]) # <<>>
                THEN Entry(inputs[j].k, DictGet(step_outputs[1], m[2])[1])
                ELSE inputs[j]]]

ResolveInputs(inputs, ctx) == ResolveInputsFrom(inputs, ctx, <<>>)

\* faulty variant of MapOutputs: with several declared outputs a returned mapping is
\* recorded as it is
MapOutputsAsReturned(return_value, atom_def) ==
    LET declared == atom_def[1].outputs
    IN  IF atom_def = <<>> THEN <<>>
        ELSE IF declared = <<>> THEN <<>>
        ELSE IF Len(declared) = 1 THEN <<Entry(declared[1].name, return_value)>>
        ELSE IF IsObj(return_value) THEN return_value.m
        ELSE <<Entry(declared[1].name, return_value)>>

\* faulty variant of MapOutputs: of a returned mapping only the declared names it holds
\* are recorded
MapOutputsPresentOnly(return_value, atom_def) ==
    LET declared == atom_def[1].outputs
    IN  IF atom_def = <<>> THEN <<>>
        ELSE IF declared = <<>> THEN <<>>
        ELSE IF Len(declared) = 1 THEN <<Entry(declared[1].name, return_value)>>
        ELSE IF IsObj(return_value)
        THEN SelectSeq([k \in DOMAIN declared |->
                          LET got == DictGet(return_value.m, declared[k].name)
                          IN  Entry(declared[k].name, IF got = <<>> THEN Absent ELSE got[1])],
                       LAMBDA e : e.v # Absent)
        ELSE <<Entry(declared[1].name, return_value)>>

\* _map_outputs(return_value, atom_def); atom_def is a sequence of length 0 (None) or 1
MapOutputs(return_value, atom_def) ==
    LET declared == atom_def[1].outputs
    IN  IF atom_def = <<>> THEN <<>>
        ELSE IF declared = <<>> THEN <<>>
        ELSE IF Len(declared) = 1 THEN <<Entry(declared[1].name, return_value)>>
        ELSE IF IsObj(return_value)
        THEN [k \in DOMAIN declared |->
                LET got == DictGet(return_value.m, declared[k].name)
                IN  Entry(declared[k].name, IF got = <<>> THEN Null ELSE got[1])]
        ELSE <<Entry(declared[1].name, return_value)>>

\* faulty variant of LookupIdentifier: the step_id is used as written, blanks included
LookupIdentifierUnstripped(step, i) ==
    LET sid == Get(step.step_id)
    IN  IF IsStr(sid) /\ Strip(sid.s) # <<>> THEN sid.s ELSE IntToStr(i)

\* _build_step_lookup: the identifier the executor gives the step at index i
LookupIdentifier(step, i) ==
    LET sid == Get(step.step_id)
    IN  IF IsStr(sid) /\ Strip(sid.s) # <<>> THEN Strip(sid.s) ELSE IntToStr(i)

\* step_lookup.get(step_id): a later step overwrites an earlier one of the same identifier
StepLookupGet(steps, step_id) ==
    LET hits == {k \in DOMAIN steps : LookupIdentifier(steps[k], k - 1) = step_id}
    IN  IF hits = {} THEN <<>>
        ELSE <<steps[CHOOSE k \in hits : \A j \in hits : j <= k]>>

\* steps = (plan_doc.get("plan") or {}).get("steps") or []
ExecSteps(doc) ==
    IF doc.t = "doc" /\ doc.plan.t = "plan" /\ Truthy(doc.plan.steps)
    THEN doc.plan.steps.l ELSE <<>>

\* faulty variant of ValidFlag: the gate looks for the key, not for its value
ValidFlagPresent(v) == "valid" \in DOMAIN v

\* validation.get("valid"), for validation = plan_response.get("validation") or {}
ValidFlag(v) == "valid" \in DOMAIN v /\ v.valid

\* faulty variant of ExecutionOrderOf: the order is walked from its end
ExecutionOrderReversed(v) ==
    IF "execution_order" \in DOMAIN v
    THEN [k \in DOMAIN v.execution_order |-> v.execution_order[Len(v.execution_order) + 1 - k]]
    ELSE <<>>

\* faulty variant of ExecutionOrderOf: the loop walks the order a second time
ExecutionOrderTwice(v) ==
    IF "execution_order" \in DOMAIN v THEN v.execution_order \o v.execution_order ELSE <<>>

\* validation.get("execution_order") or []
ExecutionOrderOf(v) == IF "execution_order" \in DOMAIN v THEN v.execution_order ELSE <<>>

Refusal ==
    [success |-> FALSE, step_results |-> <<>>,
     error |-> ErrorStr("", "Plan validation failed; refusing to execute.", <<>>)]

\* fn(**resolved_inputs) binds: every required parameter is given and no other name is
Binds(fn, resolved) ==
    /\ fn.required \subseteq Keys(resolved)
    /\ Keys(resolved) \subseteq fn.required \cup fn.optional

\* the faults an invocation may raise: the call itself raises TypeError when it does not
\* bind; the body of the action may raise anything
Faults(fn, resolved) ==
    IF Binds(fn, resolved) THEN {"RuntimeError", "SystemExit"} ELSE {"TypeError"}

\* the kinds of fault that derive from Exception (SystemExit derives from BaseException only)
ExceptionKinds == {"RuntimeError", "TypeError"}

\* faulty variant of Catches: except RuntimeError
CatchesRuntimeOnly(fault) == fault = "RuntimeError"

\* except Exception as exc
Catches(fault) == fault \in ExceptionKinds

-----------------------------------------------------------------------------
(* Plan documents handed to the program.  A plan is generated from a list   *)
(* of dependency entries: each entry makes step "to" name step "from",      *)
(* either in depends_on or by an input reference to from's output.          *)

Letters == <<"a", "b", "c", "d", "e", "f">>

IdStyles == {"index", "named", "clash"}

\* the step_id value of step k (zero-based) of an n-step plan
StyledStepId(style, k, n) ==
    CASE style = "index" -> Absent
      [] style = "named" ->
           IF k % 2 = 0 THEN Str(<<" ", Letters[k + 1], " ">>) ELSE Str(<<Letters[k + 1]>>)
      [] style = "clash" -> IF k = n - 1 /\ k > 0 THEN Str(<<"0">>) ELSE Absent

\* how an entry of depends_on writes the id of step k
StyledDepName(style, k, n) ==
    LET step == Step(StyledStepId(style, k, n), Absent, Absent, Absent, Absent)
        sid == StepIdentifier(step, k)
    IN  IF k % 2 = 1 THEN <<" ">> \o sid ELSE sid

\* the text ${sid.outputs.out}
RefStr(sid, out) == <<"$", "{">> \o sid \o OutputsLiteral \o out \o <<"}">>

StyledRef(style, k, n) ==
    LET step == Step(StyledStepId(style, k, n), Absent, Absent, Absent, Absent)
    IN  Str(RefStr(StepIdentifier(step, k), N_r))

\* slot c of an n-step plan, c in 0..2*n*n-1
Slot(c, n) ==
    [kind |-> IF c \div (n * n) = 0 THEN "dep" ELSE "ref",
     from |-> (c % (n * n)) \div n, to |-> c % n]

\* the non-decreasing sequences over lo..hi of length at most m
RECURSIVE SortedSeqs(_, _, _)
SortedSeqs(lo, hi, m) ==
    IF m = 0 THEN {<<>>}
    ELSE {<<>>} \cup UNION {{<<c>> \o t : t \in SortedSeqs(c, hi, m - 1)} : c \in lo..hi}

EdgeLists(n, m) ==
    LET lists == SortedSeqs(0, 2 * n * n - 1, m)
        refs(l, k) == Cardinality({j \in DOMAIN l : Slot(l[j], n).kind = "ref" /\ Slot(l[j], n).to = k})
    IN  {l \in lists : \A k \in 0..(n - 1) : refs(l, k) <= 2}

L_u == Str(<<"u">>)
T_x == Str(<<"t">>)

\* step k of the plan generated from the entry list l
GenStep(style, k, n, l) ==
    LET mine(kind) == SelectSeq([j \in DOMAIN l |-> Slot(l[j], n)],
                                LAMBDA e : e.kind = kind /\ e.to = k)
        deps == [j \in DOMAIN mine("dep") |-> Str(StyledDepName(style, mine("dep")[j].from, n))]
        refs == [j \in DOMAIN mine("ref") |-> StyledRef(style, mine("ref")[j].from, n)]
        inputs == IF refs = <<>> THEN <<Entry(S_x, L_u)>>
                  ELSE IF Len(refs) = 1 THEN <<Entry(S_x, refs[1])>>
                  ELSE <<Entry(S_x, refs[1]), Entry(S_y, refs[2])>>
    IN  Step(StyledStepId(style, k, n), Str(AtomOne), T_x, Obj(inputs),
             IF deps = <<>> THEN Absent ELSE Lst(deps))

GenDoc(style, n, l) ==
    Doc(T_x, PlanObj(Lst([k \in 1..n |-> GenStep(style, k - 1, n, l)]), Absent))

\* the parameters of a generated plan: id style, number of steps, entry list
GraphParams(maxEdges) ==
    UNION {{<<style, n, l>> : l \in EdgeLists(n, maxEdges)} :
           style \in IdStyles, n \in 1..MaxSteps}

S_z == <<"z">>

\* which atoms the steps of a generated plan are bound to
AtomVariants == {"one", "two", "none", "short", "free"}

\* the step at index k of an n-step plan under an atom variant: "two" and "none" rebind
\* step 0 (a reference to the two-output atom reads its second output), "short" and
\* "free" rebind the last step, "loose" gives the last step an input its action has
\* no parameter for, "ghost" binds the last step to an atom that cannot be imported
VariantStep(step, k, n, v) ==
    LET reref(e) == IF IsRef(e.v) /\ ParseRef(e.v)[1] = <<"0">>
                    THEN Entry(e.k, Str(RefStr(<<"0">>, N_s))) ELSE e
        inputs == [j \in DOMAIN step.inputs.m |-> reref(step.inputs.m[j])]
        step2 == IF v = "two" THEN [step EXCEPT !.inputs = Obj(inputs)] ELSE step
    IN  CASE v = "two" /\ k = 0 -> [step2 EXCEPT !.id = Str(AtomTwo)]
          [] v = "none" /\ k = 0 -> [step EXCEPT !.id = Str(AtomNone)]
          [] v = "short" /\ k = n - 1 -> [step EXCEPT !.id = Str(AtomShort), !.inputs = Obj(<<>>)]
          [] v = "free" /\ k = n - 1 -> [step EXCEPT !.id = Str(AtomFree)]
          [] v = "loose" /\ k = n - 1 ->
                [step EXCEPT !.inputs = Obj(Append(step.inputs.m, Entry(S_z, L_u)))]
          [] v = "ghost" /\ k = n - 1 -> [step EXCEPT !.id = Str(AtomGhost)]
          [] OTHER -> step2

WithAtoms(doc, v) ==
    LET steps == doc.plan.steps.l
    IN  Doc(doc.target,
            PlanObj(Lst([j \in DOMAIN steps |-> VariantStep(steps[j], j - 1, Len(steps), v)]),
                    doc.plan.outputs))

\* the plans handed to validate_plan: every entry list on index-named steps bound to
\* the one-output atom, and every id style and atom variant on the plans with at
\* most one entry
PlanParams ==
    {<<"index", g[2], g[3], "one">> : g \in {h \in GraphParams(MaxEdges) : h[1] = "index"}}
    \cup {<<g[1], g[2], g[3], v>> : g \in GraphParams(1), v \in AtomVariants}

\* the plans the planner hands to POST /plan
PipelineParams ==
    {<<g[1], g[2], g[3], "one">> : g \in GraphParams(MaxEdges - 1)}
    \cup {<<g[1], g[2], g[3], v>> : g \in GraphParams(1), v \in AtomVariants}

\* the plans handed to execute by a direct caller
DirectParams ==
    {<<g[1], g[2], g[3], v>> : g \in {h \in GraphParams(1) : h[1] = "index"},
                               v \in {"one", "short", "loose"}}
    \cup {<<g[1], g[2], g[3], "ghost">> :
              g \in {h \in GraphParams(1) : h[1] = "index" /\ h[2] = 2 /\ h[3] # <<>>}}

\* a well-formed step and the values a field of a malformed step may have
GoodStep == Step(Absent, Str(AtomOne), T_x, Obj(<<Entry(S_x, L_u)>>), Absent)

MalformedSteps ==
    {Str(<<"s">>), Null}
    \cup {[GoodStep EXCEPT !.id = v] : v \in {Absent, Null, Num(1)}}
    \cup {[GoodStep EXCEPT !.target = v] : v \in {Absent, Num(1)}}
    \cup {[GoodStep EXCEPT !.inputs = v] : v \in {Absent, Null, Lst(<<>>)}}
    \cup {[GoodStep EXCEPT !.step_id = v] : v \in {Null, Num(1), Str(<<>>), Str(<<" ">>)}}
    \cup {[GoodStep EXCEPT !.depends_on = v] : v \in {Null, Str(<<"0">>)}}
    \cup {[GoodStep EXCEPT !.id = Absent, !.inputs = Absent, !.step_id = Str(<<>>)]}

\* documents that break the schema somewhere (and a few that do not)
MalformedDocs ==
    {Str(<<"d">>), Null}
    \cup {Doc(t, p) : t \in {Absent, Num(1), T_x},
                      p \in {Absent, Null, Str(<<"p">>), PlanObj(Absent, Absent),
                             PlanObj(Null, Str(<<"o">>)), PlanObj(Str(<<"s">>), Absent),
                             PlanObj(Lst(<<>>), Absent)}}
    \cup {Doc(T_x, PlanObj(Lst(<<a>>), o)) :
              a \in MalformedSteps \cup {GoodStep}, o \in {Absent, Null, Str(<<"o">>), Obj(<<>>)}}
    \cup {Doc(T_x, PlanObj(Lst(<<a, b>>), Absent)) :
              a \in MalformedSteps \cup {GoodStep}, b \in MalformedSteps}


\* a step that passes the schema stage: named sid ("" for no step_id), bound to atom_id
CornerStep(sid, atom_id, inputs, depends_on) ==
    Step(IF sid = <<>> THEN Absent ELSE Str(sid), Str(atom_id), T_x, Obj(inputs), depends_on)

\* steps that pass the schema stage and probe one semantic check each
CornerSteps ==
    {CornerStep(<<>>, AtomOne, i, Absent) :
        i \in {<<>>, <<Entry(S_x, Null)>>, <<Entry(S_x, Str(<<>>))>>, <<Entry(S_x, Str(<<" ">>))>>,
               <<Entry(S_x, Num(1))>>, <<Entry(S_y, L_u)>>, <<Entry(S_x, L_u), Entry(S_z, L_u)>>,
               <<Entry(S_z, L_u), Entry(S_x, L_u), Entry(S_y, Null)>>,
               <<Entry(S_x, Str(RefStr(<<"0">>, N_r)))>>,
               <<Entry(S_x, Str(<<" ">> \o RefStr(<<"0">>, N_r) \o <<" ">>))>>,
               <<Entry(S_x, Str(RefStr(<<"0">>, S_z)))>>,
               <<Entry(S_x, Str(RefStr(<<"9">>, N_r)))>>,
               <<Entry(S_x, Str(RefStr(<<"9">>, N_r))), Entry(S_y, Str(RefStr(<<"0">>, S_z)))>>}}
    \cup {CornerStep(<<>>, a, <<Entry(S_x, L_u)>>, Absent) : a \in {<<>>, AtomGhost, AtomShort, AtomTwo}}
    \cup {CornerStep(<<>>, <<>>, <<>>, Absent)}
    \cup {CornerStep(<<>>, AtomOne, <<Entry(S_x, L_u)>>, Lst(d)) :
              d \in {<<>>, <<Num(0)>>, <<Null>>, <<Str(<<"9">>)>>, <<Str(<<" ">>)>>, <<Str(<<"0">>)>>,
                     <<Str(<<"0">>), Str(<<" ", "0">>)>>, <<Str(<<"9">>), Num(0), Str(<<"0">>)>>}}
    \cup {CornerStep(sid, AtomOne, <<Entry(S_x, L_u)>>, Absent) : sid \in {<<"a">>, <<"a", " ">>, <<"0">>, <<"1">>}}

\* plans of one or two corner steps, and plans whose schema errors sit in different
\* stages or hide a semantic error
CornerDocs ==
    {Doc(T_x, PlanObj(Lst(<<a>>), Absent)) : a \in CornerSteps}
    \cup {Doc(T_x, PlanObj(Lst(<<a, b>>), Absent)) : a, b \in CornerSteps}
    \cup {Doc(t, PlanObj(Lst(<<a, CornerStep(<<"0">>, AtomGhost, <<>>, Absent)>>), o)) :
              t \in {Absent, T_x}, a \in {GoodStep, [GoodStep EXCEPT !.target = Absent]},
              o \in {Absent, Str(<<"o">>)}}
    \cup {Doc(T_x, PlanObj(Lst(<<CornerStep(<<>>, AtomGhost, <<>>, Lst(<<Str(<<"9">>)>>)),
                                 CornerStep(<<"0">>, AtomOne, <<Entry(S_x, L_u)>>, Absent)>>),
                           Absent))}

\* execute_plan, lines 88-92: the effective id under which user inputs are looked up
EffectiveStepId(step, index) ==
    LET step_id == Get(step.step_id)
    IN  IF IsStr(step_id) /\ Strip(step_id.s) # <<>> THEN Strip(step_id.s) ELSE IntToStr(index)

\* {**existing_inputs, **step_user_inputs}
RECURSIVE MergeInputs(_, _)
MergeInputs(existing, user) ==
    IF user = <<>> THEN existing
    ELSE MergeInputs(DictSet(existing, Head(user).k, Head(user).v), Tail(user))

\* faulty variant of MergeStep: the user inputs are looked up by position only
MergeStepByIndex(step, index, user_inputs) ==
    IF ~IsStepObj(step) THEN step
    ELSE LET step_user_inputs == DictGet(user_inputs, IntToStr(index))
             existing_inputs == IF IsObj(step.inputs) THEN step.inputs.m ELSE <<>>
         IN  IF step_user_inputs = <<>> \/ step_user_inputs[1] = <<>> THEN step
             ELSE [step EXCEPT !.inputs = Obj(MergeInputs(existing_inputs, step_user_inputs[1]))]

\* execute_plan, lines 84-106: the body of the merge loop for the step at index
MergeStep(step, index, user_inputs) ==
    IF ~IsStepObj(step) THEN step
    ELSE LET step_user_inputs == DictGet(user_inputs, EffectiveStepId(step, index))
             existing_inputs == IF IsObj(step.inputs) THEN step.inputs.m ELSE <<>>
         IN  IF step_user_inputs = <<>> \/ step_user_inputs[1] = <<>> THEN step
             ELSE [step EXCEPT !.inputs = Obj(MergeInputs(existing_inputs, step_user_inputs[1]))]

\* execute_plan, lines 79-106: the plan document after the merge loop (doc is a plan
\* document whose plan is an object and whose steps are an array)
MergePlan(doc, user_inputs) ==
    LET steps == doc.plan.steps.l
    IN  Doc(doc.target,
            PlanObj(Lst([k \in DOMAIN steps |-> MergeStep(steps[k], k - 1, user_inputs)]),
                    doc.plan.outputs))

\* execute_plan, line 115: the execution of a response whose merged plan is not valid
MergeFailure ==
    [success |-> FALSE, step_results |-> <<>>,
     error |-> ErrorStr("", "Plan validation failed after applying user inputs.", <<>>)]

L_v == Str(<<"v">>)
S_b == <<"b">>

\* the steps of the plans sent to POST /execute: a blank placeholder, a complete step,
\* a named step that reads the first step's output, steps without a usable inputs
\* object, and a value that is no step
RequestSteps ==
    <<CornerStep(<<>>, AtomOne, <<Entry(S_x, Str(<<>>))>>, Absent),
      CornerStep(<<>>, AtomOne, <<Entry(S_x, L_u), Entry(S_y, L_u)>>, Absent),
      CornerStep(<<" ", "b">>, AtomOne, <<Entry(S_x, Str(RefStr(<<"0">>, N_r)))>>, Absent),
      [GoodStep EXCEPT !.inputs = Absent],
      [GoodStep EXCEPT !.inputs = Lst(<<>>)],
      Str(<<"s">>)>>

RequestPlans ==
    {Doc(T_x, PlanObj(Lst(<<RequestSteps[a]>>), Absent)) : a \in DOMAIN RequestSteps}
    \cup {Doc(T_x, PlanObj(Lst(<<RequestSteps[a[1]], RequestSteps[a[2]]>>), Absent)) :
              a \in {<<1, 3>>, <<2, 3>>, <<1, 1>>, <<4, 3>>, <<5, 2>>, <<3, 3>>, <<2, 6>>}}

\* user_inputs: effective step id -> {input name: value}; the values are strings, null,
\* a number, strings that resemble a reference, and a reference with blanks around it
UserInputs ==
    {<<>>,
     <<Entry(<<"0">>, <<>>)>>,
     <<Entry(<<"0">>, <<Entry(S_x, L_v)>>)>>,
     <<Entry(<<"0">>, <<Entry(S_x, Null)>>)>>,
     <<Entry(<<"0">>, <<Entry(S_y, L_v), Entry(S_x, L_v)>>), Entry(<<"1">>, <<Entry(S_x, L_v)>>)>>,
     <<Entry(S_b, <<Entry(S_x, L_v)>>), Entry(<<"0">>, <<Entry(S_x, L_v)>>)>>,
     <<Entry(<<"1">>, <<Entry(S_z, L_v)>>), Entry(<<"0">>, <<Entry(S_x, L_v)>>)>>,
     <<Entry(<<"0">>, <<Entry(S_y, Num(3)), Entry(S_x, Str(<<"$", "{", "0", "}">>))>>)>>,
     <<Entry(<<"0">>, <<Entry(S_x, Str(RefStr(<<"0">>, N_r) \o <<"x">>))>>),
       Entry(S_b, <<Entry(S_x, Str(<<" ">> \o RefStr(<<"0">>, N_r) \o <<" ">>))>>)>>}

\* plan_response without "validation" / a response without an execution
NoValidation == [t |-> "none"]
NoExecution == [t |-> "none"]

\* the request is not a POST /execute
NoRequest == [t |-> "none"]

\* the ids a direct caller may put in execution_order
OrderIds == {<<"0">>, <<"1">>, <<"ghost">>}

OrdersUpTo(m) == UNION {[1..k -> OrderIds] : k \in 0..m}

\* the "validation" a direct caller may hand to execute
SuppliedValidations ==
    {NoValidation, [valid |-> FALSE], [valid |-> TRUE]}
    \cup {[valid |-> b, execution_order |-> o] : b \in BOOLEAN, o \in OrdersUpTo(MaxOrder)}

-----------------------------------------------------------------------------
(* The state machine *)

\* the state before a request is handled
Idle ==
    /\ order = <<>>
    /\ idx = 0
    /\ context = <<>>
    /\ step_results = <<>>
    /\ execution = NoExecution
    /\ active = <<>>
    /\ calls = <<>>

\* validate_plan applied to generated plans
InitValidate ==
    /\ \/ \E g \in PlanParams : plan_doc = WithAtoms(GenDoc(g[1], g[2], g[3]), g[4])
       \/ plan_doc \in MalformedDocs
       \/ plan_doc \in CornerDocs
    /\ validation = NoValidation
    /\ mode = "pipeline"
    /\ pc = "request"
    /\ Idle
    /\ atoms_registry = <<Registry>>
    /\ threads = <<>>
    /\ loads = 0
    /\ request = NoRequest

\* POST /plan: the planner's document is validated, then executed when valid
InitPipeline ==
    /\ \E g \in PipelineParams : plan_doc = WithAtoms(GenDoc(g[1], g[2], g[3]), g[4])
    /\ validation = NoValidation
    /\ mode = "pipeline"
    /\ pc = "request"
    /\ Idle
    /\ atoms_registry = <<Registry>>
    /\ threads = <<>>
    /\ loads = 0
    /\ request = NoRequest

\* execute called directly with a plan_response of the caller's making
InitDirect ==
    /\ \E g \in DirectParams : plan_doc = WithAtoms(GenDoc(g[1], g[2], g[3]), g[4])
    /\ validation \in SuppliedValidations
    /\ mode = "direct"
    /\ pc = "validated"
    /\ Idle
    /\ atoms_registry = <<Registry>>
    /\ threads = <<>>
    /\ loads = 0
    /\ request = NoRequest

\* POST /execute: the body has a plan, an optional validation and user_inputs
InitExecute ==
    /\ request \in [plan : RequestPlans,
                    validation : {NoValidation, [valid |-> TRUE, execution_order |-> <<<<"0">>>>]},
                    user_inputs : UserInputs]
    /\ plan_doc = request.plan
    /\ validation = NoValidation
    /\ mode = "execute"
    /\ pc = "merge"
    /\ atoms_registry = <<Registry>>
    /\ threads = <<>>
    /\ loads = 0
    /\ Idle

\* execute_plan, lines 79-109: the user inputs are merged into the steps of the plan
MergeUserInputs ==
    /\ pc = "merge"
    /\ plan_doc' = MergePlan(plan_doc, request.user_inputs)
    /\ pc' = "request"
    /\ UNCHANGED <<validation, mode, order, idx, context, step_results, execution, active,
                   calls, atoms_registry, request, threads, loads>>

\* execute_plan, lines 112-115: the merged plan is not valid
RejectAfterMerge ==
    /\ pc = "validated"
    /\ mode = "execute"
    /\ ~ValidFlag(validation)
    /\ execution' = MergeFailure
    /\ pc' = "responded"
    /\ UNCHANGED <<plan_doc, validation, mode, order, idx, context, step_results, active,
                   calls, atoms_registry, request, threads, loads>>

\* faulty variant of Validate: POST /execute takes the validation of the request when
\* there is one
ValidateUnlessSupplied ==
    /\ pc = "request"
    /\ validation' = IF mode = "execute" /\ request.validation # NoValidation
                     THEN request.validation
                     ELSE ValidatePlan(plan_doc, atoms_registry[1])
    /\ pc' = "validated"
    /\ UNCHANGED <<plan_doc, mode, order, idx, context, step_results, execution, active, calls>>
    /\ UNCHANGED <<atoms_registry, request, threads, loads>>

\* routes.py: validation = validate_plan(plan_doc, registry)
Validate ==
    /\ pc = "request"
    /\ validation' = ValidatePlan(plan_doc, atoms_registry[1])
    /\ pc' = "validated"
    /\ UNCHANGED <<plan_doc, mode, order, idx, context, step_results, execution, active, calls>>
    /\ UNCHANGED <<atoms_registry, request, threads, loads>>

\* create_plan: execution stays None when validation is not valid
SkipExecution ==
    /\ pc = "validated"
    /\ mode = "pipeline"
    /\ ~ValidFlag(validation)
    /\ pc' = "responded"
    /\ UNCHANGED <<plan_doc, validation, mode, order, idx, context, step_results,
                   execution, active, calls>>
    /\ UNCHANGED <<atoms_registry, request, threads, loads>>

\* faulty variant of ExecuteBegin: create_plan calls execute whatever the validation says
ExecuteBeginAlways ==
    /\ pc = "validated"
    /\ IF ~ValidFlag(validation)
       THEN /\ execution' = Refusal
            /\ pc' = "returned"
            /\ UNCHANGED <<order, idx, context, step_results>>
       ELSE /\ order' = ExecutionOrderOf(validation)
            /\ idx' = 0
            /\ context' = <<>>
            /\ step_results' = <<>>
            /\ pc' = "loop"
            /\ UNCHANGED execution
    /\ UNCHANGED <<plan_doc, validation, mode, active, calls>>
    /\ UNCHANGED <<atoms_registry, request, threads, loads>>

\* execute, lines 30-44: the gate and the locals
ExecuteBegin ==
    /\ pc = "validated"
    /\ mode \in {"pipeline", "execute"} => ValidFlag(validation)
    /\ IF ~ValidFlag(validation)
       THEN /\ execution' = Refusal
            /\ pc' = "returned"
            /\ UNCHANGED <<order, idx, context, step_results>>
       ELSE /\ order' = ExecutionOrderOf(validation)
            /\ idx' = 0
            /\ context' = <<>>
            /\ step_results' = <<>>
            /\ pc' = "loop"
            /\ UNCHANGED execution
    /\ UNCHANGED <<plan_doc, validation, mode, active, calls>>
    /\ UNCHANGED <<atoms_registry, request, threads, loads>>

\* faulty variant of FailWith: the failed result is appended and the loop goes on
ContinueWith(result) ==
    /\ step_results' = Append(step_results, result)
    /\ execution' = execution
    /\ pc' = "loop"

\* faulty variant of FailWith: the top-level error is a fixed message
FailWithGeneric(result) ==
    /\ step_results' = Append(step_results, result)
    /\ execution' = [success |-> FALSE, step_results |-> Append(step_results, result),
                     error |-> ErrorStr("", "Execution failed.", <<>>)]
    /\ pc' = "returned"

\* the failing exits of the loop: append the failed result and return
FailWith(result) ==
    /\ step_results' = Append(step_results, result)
    /\ execution' = [success |-> FALSE, step_results |-> Append(step_results, result),
                     error |-> result.error]
    /\ pc' = "returned"

\* faulty variant of Prepare: the inputs are resolved before the capability is
PrepareInputsFirst(step_id, steps, ctx) ==
    LET found == StepLookupGet(steps, step_id)
        step == found[1]
        atom_id == IF Has(step.id) THEN step.id.s ELSE <<>>
        rc == ResolveCallable(atom_id)
        ri == ResolveInputs(IF Truthy(step.inputs) THEN step.inputs.m ELSE <<>>, ctx)
    IN  IF found = <<>>
        THEN [ok |-> FALSE, result |-> StepFailure(step_id, <<>>, "STEP_NOT_FOUND", "not found in plan.steps", <<step_id>>)]
        ELSE IF ~ri.ok
        THEN [ok |-> FALSE, result |-> StepFailure(step_id, atom_id, ri.code, ri.text, ri.names)]
        ELSE IF ~rc.ok
        THEN [ok |-> FALSE, result |-> StepFailure(step_id, atom_id, rc.code, rc.text, <<atom_id>>)]
        ELSE [ok |-> TRUE,
              call |-> [step_id |-> step_id, atom_id |-> atom_id, fn |-> rc.fn,
                        inputs |-> ri.resolved, fault |-> "none", returned |-> Absent]]

\* what the loop body decides for step_id before the invocation: a failed result, or
\* the invocation to start
Prepare(step_id, steps, ctx) ==
    LET found == StepLookupGet(steps, step_id)
        step == found[1]
        atom_id == IF Has(step.id) THEN step.id.s ELSE <<>>
        rc == ResolveCallable(atom_id)
        ri == ResolveInputs(IF Truthy(step.inputs) THEN step.inputs.m ELSE <<>>, ctx)
    IN  IF found = <<>>
        THEN [ok |-> FALSE, result |-> StepFailure(step_id, <<>>, "STEP_NOT_FOUND", "not found in plan.steps", <<step_id>>)]
        ELSE IF ~rc.ok
        THEN [ok |-> FALSE, result |-> StepFailure(step_id, atom_id, rc.code, rc.text, <<atom_id>>)]
        ELSE IF ~ri.ok
        THEN [ok |-> FALSE, result |-> StepFailure(step_id, atom_id, ri.code, ri.text, ri.names)]
        ELSE [ok |-> TRUE,
              call |-> [step_id |-> step_id, atom_id |-> atom_id, fn |-> rc.fn,
                        inputs |-> ri.resolved, fault |-> "none", returned |-> Absent]]

\* faulty variant of StepBegin: the resolved inputs are written back into the step of
\* the plan instead of into a mapping of their own
StepBeginResolvesInPlace ==
    /\ pc = "loop"
    /\ idx < Len(order)
    /\ LET p == Prepare(order[idx + 1], ExecSteps(plan_doc), context)
           steps == ExecSteps(plan_doc)
       IN  IF p.ok
           THEN /\ active' = <<p.call>>
                /\ calls' = Append(calls, p.call)
                /\ pc' = "invoking"
                /\ plan_doc' = Doc(plan_doc.target,
                                   PlanObj(Lst([k \in DOMAIN steps |->
                                               IF StepIdentifier(steps[k], k - 1) = p.call.step_id
                                                  /\ Truthy(steps[k].inputs)
                                               THEN [steps[k] EXCEPT !.inputs = Obj(p.call.inputs)]
                                               ELSE steps[k]]),
                                           plan_doc.plan.outputs))
                /\ UNCHANGED <<step_results, execution>>
           ELSE /\ FailWith(p.result)
                /\ UNCHANGED <<active, calls, plan_doc>>
    /\ UNCHANGED <<validation, mode, order, idx, context>>
    /\ UNCHANGED <<atoms_registry, request, threads, loads>>

\* one iteration of the for loop up to the invocation fn(**resolved_inputs)
StepBegin ==
    /\ pc = "loop"
    /\ idx < Len(order)
    /\ LET p == Prepare(order[idx + 1], ExecSteps(plan_doc), context)
       IN  IF p.ok
           THEN /\ active' = <<p.call>>
                /\ calls' = Append(calls, p.call)
                /\ pc' = "invoking"
                /\ UNCHANGED <<step_results, execution>>
           ELSE /\ FailWith(p.result)
                /\ UNCHANGED <<active, calls>>
    /\ UNCHANGED <<plan_doc, validation, mode, order, idx, context>>
    /\ UNCHANGED <<atoms_registry, request, threads, loads>>

\* faulty variant of ActionReturns: the outputs are recorded under the atom id
ActionReturnsByAtom ==
    /\ pc = "invoking"
    /\ Binds(active[1].fn, active[1].inputs)
    /\ \E return_value \in ReturnValues(active[1].fn) :
          LET call == active[1]
              outputs == MapOutputs(return_value, RegistryGet(atoms_registry[1], call.atom_id))
          IN  /\ context' = DictSet(context, call.atom_id, outputs)
              /\ step_results' = Append(step_results,
                                        StepCompleted(call.step_id, call.atom_id, outputs))
              /\ calls' = [calls EXCEPT ![Len(calls)].returned = return_value]
    /\ idx' = idx + 1
    /\ active' = <<>>
    /\ pc' = "loop"
    /\ UNCHANGED <<plan_doc, validation, mode, order, execution>>
    /\ UNCHANGED <<atoms_registry, request, threads, loads>>

\* the action returns: map its outputs, record them, append the completed result
ActionReturns ==
    /\ pc = "invoking"
    /\ Binds(active[1].fn, active[1].inputs)
    /\ \E return_value \in ReturnValues(active[1].fn) :
          LET call == active[1]
              outputs == MapOutputs(return_value, RegistryGet(atoms_registry[1], call.atom_id))
          IN  /\ context' = DictSet(context, call.step_id, outputs)
              /\ step_results' = Append(step_results,
                                        StepCompleted(call.step_id, call.atom_id, outputs))
              /\ calls' = [calls EXCEPT ![Len(calls)].returned = return_value]
    /\ idx' = idx + 1
    /\ active' = <<>>
    /\ pc' = "loop"
    /\ UNCHANGED <<plan_doc, validation, mode, order, execution>>
    /\ UNCHANGED <<atoms_registry, request, threads, loads>>

\* faulty variant of ActionRaises: after a fault the except clause catches, the step is
\* tried again
ActionRaisesRetries ==
    /\ pc = "invoking"
    /\ \E fault \in Faults(active[1].fn, active[1].inputs) :
          /\ calls' = [calls EXCEPT ![Len(calls)].fault = fault]
          /\ pc' = IF Catches(fault) THEN "loop" ELSE "raised"
    /\ active' = <<>>
    /\ UNCHANGED <<plan_doc, validation, mode, order, idx, context, step_results, execution>>
    /\ UNCHANGED <<atoms_registry, request, threads, loads>>

\* the action raises: a fault the except clause catches becomes a failed result and the
\* run returns; any other fault leaves execute (and create_plan) as a raised fault
ActionRaises ==
    /\ pc = "invoking"
    /\ \E fault \in Faults(active[1].fn, active[1].inputs) :
          /\ calls' = [calls EXCEPT ![Len(calls)].fault = fault]
          /\ IF Catches(fault)
             THEN FailWith(StepFailure(active[1].step_id, active[1].atom_id,
                                       "STEP_EXECUTION_ERROR", fault, <<active[1].atom_id>>))
             ELSE /\ pc' = "raised"
                  /\ UNCHANGED <<step_results, execution>>
    /\ active' = <<>>
    /\ UNCHANGED <<plan_doc, validation, mode, order, idx, context>>
    /\ UNCHANGED <<atoms_registry, request, threads, loads>>

\* faulty variant of ExecuteReturn: success is returned before the loop is exhausted
ExecuteReturnEarly ==
    /\ pc = "loop"
    /\ idx <= Len(order)
    /\ execution' = [success |-> TRUE, step_results |-> step_results]
    /\ pc' = "returned"
    /\ UNCHANGED <<plan_doc, validation, mode, order, idx, context, step_results,
                   active, calls>>
    /\ UNCHANGED <<atoms_registry, request, threads, loads>>

\* the loop is exhausted: return {"success": True, ...}
ExecuteReturn ==
    /\ pc = "loop"
    /\ idx = Len(order)
    /\ execution' = [success |-> TRUE, step_results |-> step_results]
    /\ pc' = "returned"
    /\ UNCHANGED <<plan_doc, validation, mode, order, idx, context, step_results,
                   active, calls>>
    /\ UNCHANGED <<atoms_registry, request, threads, loads>>

NextValidate == Validate

NextExecute == ExecuteBegin \/ StepBegin \/ ActionReturns \/ ActionRaises \/ ExecuteReturn

Next == MergeUserInputs \/ Validate \/ SkipExecution \/ RejectAfterMerge \/ NextExecute

\* validate_plan alone, on generated plans
SpecValidate == InitValidate /\ [][NextValidate]_vars

\* a request is either POST /plan or a direct call of execute
Init == InitPipeline \/ InitDirect \/ InitExecute

\* the validate-then-execute pipeline of POST /plan, and direct calls of execute
Spec == Init /\ [][Next]_vars

\* control leaves a point from which create_plan or execute goes on: the next
\* statement after the request and after validation, the next pass through the loop
\* or the return after it, and the end of an invocation by a return or a fault
Proceeds ==
    /\ pc \in {"request", "validated", "loop", "invoking"}
    /\ pc' \in {"validated", "responded", "loop", "invoking", "returned", "raised"} \ {pc}

\* one call of create_plan or of execute run to its end, under fairness: no statement
\* of create_plan or execute waits for anything, so control does not stay at such a
\* point for ever, and an invoked action eventually returns or raises
SpecRun ==
    /\ InitPipeline \/ InitDirect
    /\ [][Validate \/ SkipExecution \/ NextExecute]_vars
    /\ WF_pc(Proceeds)

-----------------------------------------------------------------------------
(* The planner.  plan(intent, atoms_registry, llm_provider) asks the LLM    *)
(* for a plan document.  A response is a sequence of lines: a fence line    *)
(* (``` or ```json), a blank line, a line of prose, or a line that holds a  *)
(* complete JSON text.                                                      *)

\* _mock_plan(intent)
MockPlan(intent) ==
    Doc(Str(IF Strip(intent) # <<>> THEN Strip(intent)
            ELSE <<"Q", "u", "e", "r", "y", " ", "u", "s", "e", "r", " ", "p", "e", "r", "m", "i", "s", "s", "i", "o", "n", " ", "a", "n", "d", " ", "t", "r", "a", "n", "s", "f", "e", "r", " ", "f", "i", "l", "e">>),
        PlanObj(Lst(<<Step(Str(<<"q", "u", "e", "r", "y", "_", "p", "e", "r", "m">>),
                           Str(<<"g", "l", "o", "b", "a", "l", "x", ".", "p", "e", "r", "m", "i", "s", "s", "i", "o", "n", ".", "q", "u", "e", "r", "y", "_", "p", "e", "r", "m", "i", "s", "s", "i", "o", "n", "s">>),
                           Str(<<"C", "h", "e", "c", "k", " ", "i", "f", " ", "u", "s", "e", "r", " ", "h", "a", "s", " ", "t", "r", "a", "n", "s", "f", "e", "r", " ", "p", "e", "r", "m", "i", "s", "s", "i", "o", "n">>),
                           Obj(<<Entry(<<"u", "s", "e", "r", "_", "i", "d">>, Str(<<"u", "s", "e", "r", "_", "0", "0", "1">>))>>),
                           Absent),
                      Step(Str(<<"t", "r", "a", "n", "s", "f", "e", "r", "_", "f", "i", "l", "e">>),
                           Str(<<"g", "l", "o", "b", "a", "l", "x", ".", "t", "r", "a", "n", "s", "f", "e", "r", ".", "f", "i", "l", "e", "_", "t", "r", "a", "n", "s", "f", "e", "r">>),
                           Str(<<"T", "r", "a", "n", "s", "f", "e", "r", " ", "f", "i", "l", "e", " ", "f", "r", "o", "m", " ", "s", "e", "n", "d", "e", "r", " ", "t", "o", " ", "r", "e", "c", "e", "i", "v", "e", "r">>),
                           Obj(<<Entry(<<"f", "i", "l", "e", "_", "p", "a", "t", "h">>, Str(<<"/", "p", "a", "t", "h", "/", "t", "o", "/", "f", "i", "l", "e">>)),
                                 Entry(<<"s", "e", "n", "d", "e", "r", "_", "i", "d">>, Str(<<"u", "s", "e", "r", "_", "0", "0", "1">>)),
                                 Entry(<<"r", "e", "c", "e", "i", "v", "e", "r", "_", "i", "d">>, Str(<<"u", "s", "e", "r", "_", "0", "0", "2">>))>>),
                           Lst(<<Str(<<"q", "u", "e", "r", "y", "_", "p", "e", "r", "m">>)>>))>>),
                Obj(<<Entry(<<"r", "e", "s", "u", "l", "t">>, Str(<<"T", "r", "a", "n", "s", "f", "e", "r", " ", "c", "o", "m", "p", "l", "e", "t", "e", "d">>))>>)))

\* _parse_plan_response(response): [ok, doc] or [ok, fault]
ParsePlanResponse(response) ==
    LET content == {i \in DOMAIN response : response[i].t # "blank"}
        first(S) == CHOOSE i \in S : \A j \in S : i <= j
        last(S) == CHOOSE i \in S : \A j \in S : j <= i
        stripped == IF content = {} THEN <<>>
                    ELSE SubSeq(response, first(content), last(content))
        inner == {i \in DOMAIN stripped : stripped[i].t \notin {"blank", "fence"}}
        body == IF stripped # <<>> /\ stripped[1].t = "fence"
                THEN SubSeq(stripped, IF inner = {} THEN 1 ELSE first(inner),
                                      IF inner = {} THEN Len(stripped) ELSE last(inner))
                ELSE stripped
        jsons == {i \in DOMAIN body : body[i].t = "json"}
    IN  IF Cardinality(jsons) = 1 /\ \A i \in DOMAIN body : body[i].t \in {"json", "blank"}
        THEN [ok |-> TRUE, doc |-> body[first(jsons)].v]
        ELSE [ok |-> FALSE, fault |-> "ValueError"]

\* a call of plan: the intent, whether the caller hands in a provider, and whether the
\* environment holds OPENAI_API_KEY
InitPlan ==
    /\ request \in [intent : {<<>>, <<" ">>, <<"a">>, <<" ", "a", " ">>},
                    llm_provider : {"given", "none"},
                    api_key : BOOLEAN]
    /\ plan_doc = Absent
    /\ validation = NoValidation
    /\ mode = "plan"
    /\ pc = "plan"
    /\ Idle
    /\ atoms_registry = <<Registry>>
    /\ threads = <<>>
    /\ loads = 0

\* plan, lines 26-34: without a provider of the caller's, get_default_provider() fails
\* with ValueError when there is no API key, and the mock plan is returned
PlanBegin ==
    /\ pc = "plan"
    /\ IF request.llm_provider = "none" /\ ~request.api_key
       THEN plan_doc' = MockPlan(request.intent) /\ pc' = "planned"
       ELSE pc' = "provider" /\ UNCHANGED plan_doc
    /\ UNCHANGED <<validation, mode, order, idx, context, step_results, execution, active,
                   calls, atoms_registry, request, threads, loads>>

\* plan, lines 36-49: llm_provider.call returns a response or raises (call re-raises a
\* fault of the client as type(e)(message), which is a TypeError when that type cannot
\* be made from a message alone); the response is parsed; a fault of the except clause
\* gives the mock plan, any other fault leaves plan
PlanCall ==
    /\ pc = "provider"
    /\ LET good == [t |-> "json", v |-> GenDoc("index", 1, <<>>)]
           fence == [t |-> "fence"]
           blank == [t |-> "blank"]
           prose == [t |-> "text"]
           responses == {<<good>>, <<blank, good, blank>>, <<fence, good, fence>>,
                         <<fence, blank, good, fence>>, <<[t |-> "json", v |-> Lst(<<>>)]>>,
                         <<>>, <<prose>>, <<prose, good>>, <<fence, fence>>,
                         <<fence, prose, good, fence>>, <<good, good>>}
           faults == {"ValueError", "KeyError", "AttributeError", "APIError",
                      "APIConnectionError", "APITimeoutError", "TypeError"}
           caught == {"ValueError", "JSONDecodeError", "AttributeError", "KeyError"}
       IN  \/ \E response \in responses :
                 /\ calls' = <<[fn |-> "call", returned |-> response, fault |-> "none"]>>
                 /\ plan_doc' = IF ParsePlanResponse(response).ok
                                THEN ParsePlanResponse(response).doc
                                ELSE MockPlan(request.intent)
                 /\ pc' = "planned"
           \/ \E fault \in faults :
                 /\ calls' = <<[fn |-> "call", returned |-> <<>>, fault |-> fault]>>
                 /\ IF fault \in caught
                    THEN plan_doc' = MockPlan(request.intent) /\ pc' = "planned"
                    ELSE pc' = "raised" /\ UNCHANGED plan_doc
    /\ UNCHANGED <<validation, mode, order, idx, context, step_results, execution, active,
                   atoms_registry, request, threads, loads>>

\* calls of plan
SpecPlan == InitPlan /\ [][PlanBegin \/ PlanCall]_vars

-----------------------------------------------------------------------------
(* Concurrent requests.  create_plan and execute_plan are plain functions,  *)
(* which the server runs on worker threads; every thread has the locals of  *)
(* its handler and of the execute call the handler makes, and all threads   *)
(* share the module global _atoms_registry.                                 *)

Threads == 1..MaxThreads

\* the plan a request of either kind brings to the validator: the planner's document
\* for POST /plan, the client's for POST /execute; the second step reads the first
\* step's output
ThreadPlan(kind) ==
    IF kind = "plan"
    THEN Doc(T_x, PlanObj(Lst(<<CornerStep(<<>>, AtomOne, <<Entry(S_x, L_u)>>, Absent),
                                CornerStep(<<>>, AtomNone,
                                           <<Entry(S_x, Str(RefStr(<<"0">>, N_r)))>>, Absent)>>),
                          Absent))
    ELSE Doc(T_x, PlanObj(Lst(<<CornerStep(<<"b">>, AtomOne, <<Entry(S_x, L_u)>>, Absent),
                                CornerStep(<<>>, AtomOne,
                                           <<Entry(S_x, Str(RefStr(S_b, N_r)))>>, Absent)>>),
                          Absent))

\* a worker thread that serves no request: no frame, no locals
FreeThread ==
    [pc |-> "free", kind |-> "none", registry |-> <<>>, order |-> <<>>, idx |-> 0,
     context |-> <<>>, step_results |-> <<>>, active |-> <<>>]

\* the process has started and routes.py is imported: _atoms_registry is None
InitConcurrent ==
    /\ threads = [t \in Threads |-> FreeThread]
    /\ loads = 0
    /\ atoms_registry = <<>>
    /\ plan_doc = Absent
    /\ validation = NoValidation
    /\ mode = "concurrent"
    /\ pc = "serving"
    /\ request = NoRequest
    /\ Idle

\* a request of either kind arrives and is given to a free worker thread, which enters
\* its handler up to the call of get_atoms_registry
Receive(t) ==
    /\ threads[t].pc = "free"
    /\ \E kind \in {"plan", "execute"} :
          threads' = [threads EXCEPT ![t] = [@ EXCEPT !.pc = "called", !.kind = kind]]
    /\ UNCHANGED <<plan_doc, validation, mode, pc, order, idx, context, step_results,
                   execution, active, calls, atoms_registry, request, loads>>

\* get_atoms_registry, line 22: the test of the global, and line 24 when it is set
CheckCache(t) ==
    /\ threads[t].pc = "called"
    /\ threads' = [threads EXCEPT ![t] =
                      IF atoms_registry = <<>>
                      THEN [@ EXCEPT !.pc = "loading"]
                      ELSE [@ EXCEPT !.pc = "ready", !.registry = atoms_registry]]
    /\ UNCHANGED <<plan_doc, validation, mode, pc, order, idx, context, step_results,
                   execution, active, calls, atoms_registry, request, loads>>

\* get_atoms_registry, line 23, right-hand side: load_atoms_registry() is called
LoadRegistry(t) ==
    /\ threads[t].pc = "loading"
    /\ loads' = loads + 1
    /\ threads' = [threads EXCEPT ![t] = [@ EXCEPT !.pc = "storing"]]
    /\ UNCHANGED <<plan_doc, validation, mode, pc, order, idx, context, step_results,
                   execution, active, calls, atoms_registry, request>>

\* get_atoms_registry, lines 23-24: the loaded registry is assigned to the global and
\* returned
StoreRegistry(t) ==
    /\ threads[t].pc = "storing"
    /\ atoms_registry' = <<Registry>>
    /\ threads' = [threads EXCEPT ![t] = [@ EXCEPT !.pc = "ready", !.registry = <<Registry>>]]
    /\ UNCHANGED <<plan_doc, validation, mode, pc, order, idx, context, step_results,
                   execution, active, calls, request, loads>>

\* faulty variant of RunBegin: context is not created by the run but is one mapping of
\* the module, so that a run begins with what the runs in progress have recorded
RunBeginSharesContext(t) ==
    /\ threads[t].pc = "ready"
    /\ \E u \in Threads :
          LET v == ValidatePlan(ThreadPlan(threads[t].kind), threads[t].registry[1])
          IN  threads' = [threads EXCEPT ![t] =
                             IF ValidFlag(v)
                             THEN [@ EXCEPT !.pc = "loop", !.order = ExecutionOrderOf(v),
                                            !.idx = 0, !.context = threads[u].context,
                                            !.step_results = <<>>]
                             ELSE [@ EXCEPT !.pc = "done"]]
    /\ UNCHANGED <<plan_doc, validation, mode, pc, order, idx, context, step_results,
                   execution, active, calls, atoms_registry, request, loads>>

\* the handler validates its plan with the registry it got and, the plan being valid,
\* calls execute, which creates its locals (executor.py lines 38-44)
RunBegin(t) ==
    /\ threads[t].pc = "ready"
    /\ LET v == ValidatePlan(ThreadPlan(threads[t].kind), threads[t].registry[1])
       IN  threads' = [threads EXCEPT ![t] =
                          IF ValidFlag(v)
                          THEN [@ EXCEPT !.pc = "loop", !.order = ExecutionOrderOf(v),
                                         !.idx = 0, !.context = <<>>, !.step_results = <<>>]
                          ELSE [@ EXCEPT !.pc = "done"]]
    /\ UNCHANGED <<plan_doc, validation, mode, pc, order, idx, context, step_results,
                   execution, active, calls, atoms_registry, request, loads>>

\* one iteration of the thread's for loop up to the invocation (executor.py lines 46-72)
RunStep(t) ==
    /\ threads[t].pc = "loop"
    /\ threads[t].idx < Len(threads[t].order)
    /\ LET me == threads[t]
           p == Prepare(me.order[me.idx + 1], ExecSteps(ThreadPlan(me.kind)), me.context)
       IN  threads' = [threads EXCEPT ![t] =
                          IF p.ok
                          THEN [@ EXCEPT !.pc = "invoking", !.active = <<p.call>>]
                          ELSE [@ EXCEPT !.pc = "done",
                                         !.step_results = Append(me.step_results, p.result)]]
    /\ UNCHANGED <<plan_doc, validation, mode, pc, order, idx, context, step_results,
                   execution, active, calls, atoms_registry, request, loads>>

\* the thread's action returns: its outputs go into the context of this run
\* (executor.py lines 83-92)
RunReturns(t) ==
    /\ threads[t].pc = "invoking"
    /\ \E return_value \in ReturnValues(threads[t].active[1].fn) :
          LET me == threads[t]
              call == me.active[1]
              outputs == MapOutputs(return_value, RegistryGet(me.registry[1], call.atom_id))
          IN  threads' = [threads EXCEPT ![t] =
                             [@ EXCEPT !.pc = "loop", !.idx = me.idx + 1, !.active = <<>>,
                                       !.context = DictSet(me.context, call.step_id, outputs),
                                       !.step_results =
                                           Append(me.step_results,
                                                  StepCompleted(call.step_id, call.atom_id,
                                                                outputs))]]
    /\ UNCHANGED <<plan_doc, validation, mode, pc, order, idx, context, step_results,
                   execution, active, calls, atoms_registry, request, loads>>

\* the thread's action raises: the run ends at this step (executor.py lines 75-81)
RunRaises(t) ==
    /\ threads[t].pc = "invoking"
    /\ \E fault \in Faults(threads[t].active[1].fn, threads[t].active[1].inputs) :
          LET me == threads[t]
              call == me.active[1]
          IN  threads' = [threads EXCEPT ![t] =
                             IF Catches(fault)
                             THEN [@ EXCEPT !.pc = "done", !.active = <<>>,
                                            !.step_results =
                                                Append(me.step_results,
                                                       StepFailure(call.step_id, call.atom_id,
                                                                   "STEP_EXECUTION_ERROR", fault,
                                                                   <<call.atom_id>>))]
                             ELSE [@ EXCEPT !.pc = "done", !.active = <<>>]]
    /\ UNCHANGED <<plan_doc, validation, mode, pc, order, idx, context, step_results,
                   execution, active, calls, atoms_registry, request, loads>>

\* the run is over (the loop is exhausted, or a step failed): the handler returns, its
\* frame and the frame of execute are gone, and the thread is free for the next request
Respond(t) ==
    /\ \/ threads[t].pc = "done"
       \/ threads[t].pc = "loop" /\ threads[t].idx = Len(threads[t].order)
    /\ threads' = [threads EXCEPT ![t] = FreeThread]
    /\ UNCHANGED <<plan_doc, validation, mode, pc, order, idx, context, step_results,
                   execution, active, calls, atoms_registry, request, loads>>

NextConcurrent ==
    \E t \in Threads :
        \/ Receive(t)
        \/ CheckCache(t)
        \/ LoadRegistry(t)
        \/ StoreRegistry(t)
        \/ RunBegin(t)
        \/ RunStep(t)
        \/ RunReturns(t)
        \/ RunRaises(t)
        \/ Respond(t)

\* the worker threads of one process serve requests to /plan and /execute, each thread
\* one request after the other
SpecConcurrent == InitConcurrent /\ [][NextConcurrent]_vars

-----------------------------------------------------------------------------
(* Properties.  The dependency relation is read off the plan document, not  *)
(* off the graph validate_plan builds.                                      *)

\* the steps of the request's plan
PlanSteps == ExecSteps(plan_doc)

\* the effective id of the k-th step (k = 1 is the step at index 0)
EffectiveId(k) == StepIdentifier(PlanSteps[k], k - 1)

\* the text name denotes the k-th step: the step bears it as its effective id (of
\* steps that share an id, which no valid plan has, the last one is meant)
Denotes(name, k) ==
    /\ EffectiveId(k) = name
    /\ \A c \in DOMAIN PlanSteps : EffectiveId(c) = name => c <= k

\* an entry of b's depends_on names a
DependsOnNames(b, a) ==
    LET d == PlanSteps[b].depends_on
    IN  IsList(d) /\ \E j \in DOMAIN d.l : IsStr(d.l[j]) /\ Denotes(Strip(d.l[j].s), a)

\* an input of b references an output of a
ReferencesOutputOf(b, a) ==
    LET inputs == PlanSteps[b].inputs
        atom == RegistryGet(Registry, PlanSteps[a].id.s)
    IN  /\ IsObj(inputs)
        /\ \E j \in DOMAIN inputs.m :
              /\ IsRef(inputs.m[j].v)
              /\ Denotes(ParseRef(inputs.m[j].v)[1], a)
              /\ atom # <<>>
              /\ ParseRef(inputs.m[j].v)[2] \in AtomOutputNames(atom[1])

\* the edge a -> b of the dependency graph
DepEdge(a, b) == DependsOnNames(b, a) \/ ReferencesOutputOf(b, a)

\* b is reached from a along at most m edges
RECURSIVE ReachIn(_, _, _)
ReachIn(a, b, m) ==
    \/ DepEdge(a, b)
    \/ m > 1 /\ \E c \in DOMAIN PlanSteps : DepEdge(a, c) /\ ReachIn(c, b, m - 1)

HasCycle == \E k \in DOMAIN PlanSteps : ReachIn(k, k, Len(PlanSteps))

DistinctIds == \A a, b \in DOMAIN PlanSteps : EffectiveId(a) = EffectiveId(b) => a = b

\* validation holds the result of validate_plan on plan_doc
Validated == mode = "pipeline" /\ pc # "request"

\* the validation has valid = true
IsValid == validation # NoValidation /\ "valid" \in DOMAIN validation /\ validation.valid

\* the position of the step id sid in the order o
PosIn(o, sid) == CHOOSE p \in DOMAIN o : o[p] = sid

\* the position of the k-th step in the execution_order of a valid plan
Pos(k) == PosIn(validation.execution_order, EffectiveId(k))

\* C1: for every plan validate_plan accepts, execution_order holds every effective
\* step id exactly once, and for every edge a -> b of the dependency graph (b's
\* depends_on names a, or an input of b references an output of a) a comes before b.
C1_OrderRespectsDependencies ==
    (Validated /\ IsValid) =>
        LET o == validation.execution_order
        IN  /\ Len(o) = Len(PlanSteps)
            /\ \A k \in DOMAIN PlanSteps :
                  Cardinality({p \in DOMAIN o : o[p] = EffectiveId(k)}) = 1
            /\ \A a, b \in DOMAIN PlanSteps : DepEdge(a, b) => Pos(a) < Pos(b)

\* a valid plan with an explicit edge whose dependency is declared after its
\* dependent, and an implicit edge
C1_Witness ==
    /\ Validated /\ IsValid
    /\ \E a, b \in DOMAIN PlanSteps : DependsOnNames(b, a) /\ a > b
    /\ \E a, b \in DOMAIN PlanSteps : ReferencesOutputOf(b, a)

\* the plan passes the schema stage
SchemaValid ==
    /\ plan_doc.t = "doc"
    /\ RootErrors(plan_doc) \o StepsErrors(plan_doc) = <<>>
    /\ AllStepSchemaErrors(DocSteps(plan_doc).l) \o OutputsErrors(plan_doc) = <<>>

\* the plan has no binding error and no reference error
NoBindingOrReferenceErrors ==
    /\ BindingErrors(PlanSteps, Registry) = <<>>
    /\ BuildGraph(PlanSteps, StepIds(PlanSteps), Registry).errors = <<>>

\* the result is valid = false with a CIRCULAR_DEPENDENCY error and no execution_order
RejectedAsCircular ==
    /\ "valid" \in DOMAIN validation /\ ~validation.valid
    /\ \E k \in DOMAIN validation.errors : validation.errors[k].code = "CIRCULAR_DEPENDENCY"
    /\ "execution_order" \notin DOMAIN validation

\* C2 as stated: for every schema-valid plan with no binding or reference errors,
\* the result is valid = false with CIRCULAR_DEPENDENCY and no execution_order
\* exactly when the dependency graph has a cycle.
C2_Original ==
    (Validated /\ SchemaValid /\ NoBindingOrReferenceErrors) =>
        (RejectedAsCircular <=> HasCycle)

\* C2, amended: for every schema-valid plan with pairwise distinct effective step
\* ids and no binding or reference errors, the result is valid = false with a
\* CIRCULAR_DEPENDENCY error and no execution_order exactly when the dependency
\* graph (explicit and implicit edges, self-loops included) has a cycle; a step that
\* depends on itself or references its own output is rejected this way.
C2_CircularIffCycle ==
    (Validated /\ SchemaValid /\ DistinctIds /\ NoBindingOrReferenceErrors) =>
        /\ RejectedAsCircular <=> HasCycle
        /\ (\E k \in DOMAIN PlanSteps : DepEdge(k, k)) => RejectedAsCircular

\* a rejected plan whose cycle runs over an explicit and an implicit edge
C2_Witness ==
    /\ Validated /\ SchemaValid /\ DistinctIds /\ NoBindingOrReferenceErrors
    /\ RejectedAsCircular
    /\ \E a, b \in DOMAIN PlanSteps : a # b /\ DependsOnNames(b, a) /\ ReferencesOutputOf(a, b)

\* C3: every result of validate_plan is either valid = true with an execution_order
\* and no errors key, or valid = false with a non-empty errors list and no
\* execution_order key.
C3_ResultShape ==
    Validated =>
        /\ "valid" \in DOMAIN validation
        /\ validation.valid =>
              "execution_order" \in DOMAIN validation /\ "errors" \notin DOMAIN validation
        /\ ~validation.valid =>
              /\ "errors" \in DOMAIN validation
              /\ validation.errors # <<>>
              /\ "execution_order" \notin DOMAIN validation

\* a rejection that lists more than one error
C3_Witness ==
    /\ Validated
    /\ ~validation.valid
    /\ Len(validation.errors) > 1

\* the step ids placed at the first p positions of the order
Placed(p) == {validation.execution_order[q] : q \in 1..p}

\* with p steps placed, the k-th step is not placed and all its dependencies are
Runnable(k, p) ==
    /\ EffectiveId(k) \notin Placed(p)
    /\ \A a \in DOMAIN PlanSteps : DepEdge(a, k) => EffectiveId(a) \in Placed(p)

\* the number of steps placed when the k-th step becomes runnable: the position of
\* the last of its dependencies, 0 when it has none
ReadyAt(k) ==
    LET at == {0} \cup {Pos(a) : a \in {c \in DOMAIN PlanSteps : DepEdge(c, k)}}
    IN  CHOOSE p \in at : \A q \in at : q <= p

\* C4 as stated: whenever two steps are both runnable at the same point of the
\* order, the one declared earlier is placed before the other.
C4_Original ==
    (Validated /\ IsValid) =>
        \A p \in 0..Len(PlanSteps), a, b \in DOMAIN PlanSteps :
            (a < b /\ Runnable(a, p) /\ Runnable(b, p)) => Pos(a) < Pos(b)

\* C4, amended: in the execution_order of every valid plan the steps are placed in
\* the order in which they become runnable, and of two steps that become runnable
\* at the same point (both have no dependency, or the last-placed dependency of
\* both is the same step) the one declared earlier is placed before the other.
C4_FifoByDeclaration ==
    (Validated /\ IsValid) =>
        \A a, b \in DOMAIN PlanSteps :
            LET ra == ReadyAt(a)
                rb == ReadyAt(b)
            IN  (ra < rb \/ (ra = rb /\ a < b)) => Pos(a) < Pos(b)

\* a valid plan in which two steps become runnable at the same point, and a step
\* declared first is placed behind a later one although both were runnable
C4_Witness ==
    /\ Validated /\ IsValid
    /\ \E a, b \in DOMAIN PlanSteps : a < b /\ ReadyAt(a) = ReadyAt(b)
    /\ \E p \in 0..Len(PlanSteps), a, b \in DOMAIN PlanSteps :
          a < b /\ Runnable(a, p) /\ Runnable(b, p) /\ Pos(b) < Pos(a)

\* C6: when the validation handed to execute is missing or has valid not true, no
\* action is invoked and the result is success = false with empty step_results and
\* an error string, whatever the plan and the execution_order hold.
C6_RefusesInvalidPlan ==
    ~IsValid =>
        /\ calls = <<>>
        /\ active = <<>>
        /\ pc = "returned" =>
              /\ execution.success = FALSE
              /\ execution.step_results = <<>>
              /\ "error" \in DOMAIN execution /\ execution.error # NoError

\* a refused call whose execution_order names a step of the plan
C6_Witness ==
    /\ mode = "direct" /\ pc = "returned"
    /\ "valid" \in DOMAIN validation /\ ~validation.valid
    /\ "execution_order" \in DOMAIN validation
    /\ \E k \in DOMAIN validation.execution_order :
          StepLookupGet(PlanSteps, validation.execution_order[k]) # <<>>

FailureCodes == {"STEP_NOT_FOUND", "UNRESOLVED_ATOM", "UNRESOLVED_REF", "STEP_EXECUTION_ERROR"}

\* the run has recorded a failed result
Failed == \E k \in DOMAIN step_results : step_results[k].status = "failed"

\* C7: in every run of execute step_results is a sequence of completed results
\* followed by at most one failed result, which is last; once a step has failed the
\* run has returned and no action but those of the completed steps and of the
\* failing step itself was ever invoked.
C7_FailFast ==
    LET n == Len(step_results)
    IN  /\ \A k \in 1..(n - 1) : step_results[k].status = "completed"
        /\ Failed =>
              /\ step_results[n].error.code \in FailureCodes
              /\ pc = "returned" /\ active = <<>>
              /\ execution.success = FALSE /\ execution.step_results = step_results
              /\ Len(calls) = (n - 1) + (IF step_results[n].error.code = "STEP_EXECUTION_ERROR"
                                         THEN 1 ELSE 0)
              /\ \A k \in DOMAIN calls : calls[k].step_id = order[k]

\* a run that failed at its second step with a later step still to run
C7_Witness ==
    /\ Failed
    /\ Len(step_results) = 2
    /\ Len(order) > 2
    /\ StepLookupGet(PlanSteps, order[3]) # <<>>

\* the entry at position k of execution_order produced a completed result
CompletedAt(k) ==
    /\ k \in DOMAIN execution.step_results
    /\ execution.step_results[k].status = "completed"
    /\ execution.step_results[k].step_id = ExecutionOrderOf(validation)[k]

\* the id sid produced a completed result
ProducedCompleted(sid) ==
    \E j \in DOMAIN execution.step_results :
        /\ execution.step_results[j].step_id = sid
        /\ execution.step_results[j].status = "completed"

\* step_results is aligned with execution_order
Aligned ==
    LET eo == ExecutionOrderOf(validation)
    IN  /\ Len(execution.step_results) = Len(eo)
        /\ \A k \in DOMAIN eo : execution.step_results[k].step_id = eo[k]

\* C8 as stated, on the calls that pass the gate (the validation has valid = true):
\* success = true exactly when every id of execution_order produced a completed
\* result, and then step_results is aligned with execution_order.
C8_Original ==
    (pc = "returned" /\ IsValid) =>
        /\ execution.success <=>
              \A k \in DOMAIN ExecutionOrderOf(validation) :
                  ProducedCompleted(ExecutionOrderOf(validation)[k])
        /\ execution.success => Aligned

\* C8, amended: execute returns success = true exactly when the validation has
\* valid = true and every entry of execution_order, position by position, produced
\* a completed result; then step_results has the length of execution_order and
\* step_results[k].step_id = execution_order[k] at every position k.
C8_SuccessIffAllCompleted ==
    pc = "returned" =>
        /\ execution.success <=>
              (IsValid /\ \A k \in DOMAIN ExecutionOrderOf(validation) : CompletedAt(k))
        /\ execution.success => Aligned

\* a successful direct run over an order of two entries, and nothing less
C8_Witness ==
    /\ pc = "returned" /\ mode = "direct"
    /\ execution.success
    /\ Len(ExecutionOrderOf(validation)) = 2

\* C9 as stated: in every result of execute the number of step_results is at most
\* the number of steps of the plan, and equals it when success is true.
C9_Original ==
    pc = "returned" =>
        /\ Len(execution.step_results) <= Len(PlanSteps)
        /\ execution.success => Len(execution.step_results) = Len(PlanSteps)

\* C9, amended: when execute is given the validation validate_plan returned for the
\* plan (the validate-then-execute pipeline), the number of step_results is at most
\* the number of steps of the plan, and equals it when success is true.
C9_ResultsBoundedBySteps ==
    (mode = "pipeline" /\ pc = "returned") =>
        /\ Len(execution.step_results) <= Len(PlanSteps)
        /\ execution.success => Len(execution.step_results) = Len(PlanSteps)

\* a pipeline run of a plan of several steps that succeeded
C9_Witness ==
    /\ mode = "pipeline" /\ pc = "returned"
    /\ execution.success
    /\ Len(PlanSteps) > 1

\* C10: in the pipeline, actions are invoked one at a time in execution_order: an
\* invocation starts only when every earlier one has returned and its completed
\* result is recorded; so for every edge a -> b the action of b is invoked only
\* after a's completed result has been recorded.
C10_SequentialInOrder ==
    mode = "pipeline" =>
        /\ Len(active) <= 1
        /\ Len(calls) <= Len(step_results) + 1
        /\ active # <<>> => Len(calls) = Len(step_results) + 1 /\ active[1] = calls[Len(calls)]
        /\ \A q \in DOMAIN calls :
              /\ calls[q].step_id = validation.execution_order[q]
              /\ \A p \in 1..(q - 1) :
                    /\ step_results[p].status = "completed"
                    /\ step_results[p].step_id = calls[p].step_id
              /\ \A a, b \in DOMAIN PlanSteps :
                    (DepEdge(a, b) /\ EffectiveId(b) = calls[q].step_id) =>
                        \E p \in 1..(q - 1) :
                            /\ step_results[p].step_id = EffectiveId(a)
                            /\ step_results[p].status = "completed"

\* the action of a step is in progress whose dependency is declared after it
C10_Witness ==
    /\ mode = "pipeline" /\ pc = "invoking"
    /\ \E a, b \in DOMAIN PlanSteps :
          a > b /\ DepEdge(a, b) /\ active # <<>> /\ active[1].step_id = EffectiveId(b)

\* the step ids a reference among the raw inputs of the step named sid points at
ReferencedIds(sid) ==
    LET found == StepLookupGet(PlanSteps, sid)
        inputs == IF found # <<>> /\ IsObj(found[1].inputs) THEN found[1].inputs.m ELSE <<>>
    IN  {ParseRef(inputs[j].v)[1] : j \in {i \in DOMAIN inputs : IsRef(inputs[i].v)}}

\* the last completed result recorded for the step id sid
LastCompleted(sid) ==
    LET at == {j \in DOMAIN step_results :
                  step_results[j].step_id = sid /\ step_results[j].status = "completed"}
    IN  step_results[CHOOSE j \in at : \A i \in at : i <= j]

\* C11: while execute walks execution_order, at the step at position idx + 1 the
\* context holds the outputs of exactly the steps at the positions up to idx, all
\* completed; what an invocation read by reference was recorded by a step at an
\* earlier position, and a failed step leaves nothing in the context.
C11_ContextHoldsEarlierSteps ==
    /\ Keys(context) = {step_results[j].step_id :
                           j \in {i \in DOMAIN step_results : step_results[i].status = "completed"}}
    /\ \A k \in DOMAIN context : context[k].v = LastCompleted(context[k].k).outputs
    /\ pc \in {"loop", "invoking"} =>
          /\ Keys(context) = {order[j] : j \in 1..idx}
          /\ Len(step_results) = idx
          /\ \A j \in 1..idx :
                step_results[j].status = "completed" /\ step_results[j].step_id = order[j]
    /\ \A q \in DOMAIN calls :
          \A sid \in ReferencedIds(calls[q].step_id) : \E p \in 1..(q - 1) : order[p] = sid

\* an invocation in progress, after two completed steps, that read an output of an
\* earlier step from the context
C11_Witness ==
    /\ pc = "invoking"
    /\ idx = 2 /\ Len(context) = 2
    /\ ReferencedIds(active[1].step_id) # {}

\* the call at position q ended in the failed result that execute returned
CaughtAt(q) ==
    /\ pc = "returned"
    /\ q = Len(calls) /\ q = Len(step_results)
    /\ step_results[q].status = "failed"
    /\ step_results[q].step_id = calls[q].step_id
    /\ step_results[q].error.code = "STEP_EXECUTION_ERROR"
    /\ step_results[q].error.text = calls[q].fault
    /\ execution.success = FALSE
    /\ execution.step_results = step_results

ReturnedFailure == pc = "returned" /\ execution.success = FALSE

\* C13 as stated: whenever execute returns success=false, step_results holds a failed
\* StepResult and the top-level error equals its error.
C13_Original ==
    ReturnedFailure =>
        \E k \in DOMAIN execution.step_results :
            /\ execution.step_results[k].status = "failed"
            /\ execution.error = execution.step_results[k].error

\* C13: whenever execute returns success=false and step_results holds a failed
\* StepResult, that result is the last one and the top-level error equals its error;
\* the only other failure is the refusal of a plan not marked valid, which returns no
\* step results and the fixed refusal message.
C13_ErrorEchoesFailedStep ==
    ReturnedFailure =>
        LET results == execution.step_results
            n == Len(results)
        IN  IF \E k \in DOMAIN results : results[k].status = "failed"
            THEN /\ results[n].status = "failed"
                 /\ execution.error = results[n].error
                 /\ execution.error.code \in FailureCodes
            ELSE /\ results = <<>>
                 /\ execution = Refusal
                 /\ calls = <<>>

\* a run that failed at its second step, for a reason other than a fault of the action
C13_Witness ==
    /\ ReturnedFailure
    /\ Len(execution.step_results) = 2
    /\ execution.step_results[2].status = "failed"
    /\ execution.step_results[2].error.code \in {"UNRESOLVED_ATOM", "UNRESOLVED_REF", "STEP_NOT_FOUND"}

\* the errors of the validation result (none when it is valid)
ReportedErrors == IF "errors" \in DOMAIN validation THEN validation.errors ELSE <<>>

\* the positions in the error list of the errors with this code at the k-th step
ErrorsAt(code, k) ==
    {e \in DOMAIN ReportedErrors : ReportedErrors[e].code = code /\ ReportedErrors[e].at = k - 1}

\* an earlier step has the effective id of the k-th step
RepeatsEarlierId(k) == \E j \in 1..(k - 1) : EffectiveId(j) = EffectiveId(k)

\* C14: for every schema-valid plan the result holds exactly one DUPLICATE_STEP_ID
\* error, naming the id, at each step whose effective id is that of an earlier step,
\* and none at any other step; a valid plan has pairwise distinct effective ids.
C14_OneErrorPerDuplicate ==
    (Validated /\ SchemaValid) =>
        /\ \A k \in DOMAIN PlanSteps :
              LET dup == ErrorsAt("DUPLICATE_STEP_ID", k)
              IN  IF RepeatsEarlierId(k)
                  THEN /\ Cardinality(dup) = 1
                       /\ \A e \in dup : /\ ReportedErrors[e].names = <<EffectiveId(k)>>
                                         /\ ReportedErrors[e].field = "step_id"
                  ELSE dup = {}
        /\ \A e \in DOMAIN ReportedErrors :
              ReportedErrors[e].code = "DUPLICATE_STEP_ID" =>
                  ReportedErrors[e].at + 1 \in DOMAIN PlanSteps
        /\ IsValid => DistinctIds

\* a step with an explicit step_id equal to the index-derived id of an earlier step
\* that has none, reported as a duplicate
C14_Witness ==
    /\ Validated /\ SchemaValid
    /\ \E j, k \in DOMAIN PlanSteps :
          /\ j < k
          /\ ~Has(PlanSteps[j].step_id)
          /\ IsStr(PlanSteps[k].step_id)
          /\ EffectiveId(j) = EffectiveId(k)
          /\ ErrorsAt("DUPLICATE_STEP_ID", k) # {}

\* the k-th step's id has an entry in the registry
BoundToAtom(k) == IsStr(PlanSteps[k].id) /\ RegistryGet(Registry, PlanSteps[k].id.s) # <<>>

\* C15: for every step of a schema-valid plan whose id has no entry in the registry
\* the result holds UNKNOWN_ATOM_ID at that step, and every step of a plan that
\* validates as valid is bound to an atom of the registry.
C15_UnknownAtomReported ==
    (Validated /\ SchemaValid) =>
        /\ \A k \in DOMAIN PlanSteps : ~BoundToAtom(k) => ErrorsAt("UNKNOWN_ATOM_ID", k) # {}
        /\ IsValid => \A k \in DOMAIN PlanSteps : BoundToAtom(k)

\* the declared input names of the atom the k-th step is bound to, and the required ones
DeclaredInputs(k) ==
    LET defs == Registry[PlanSteps[k].id.s].inputs
    IN  {defs[d].name : d \in DOMAIN defs}

RequiredInputs(k) ==
    LET defs == Registry[PlanSteps[k].id.s].inputs
    IN  {defs[d].name : d \in {c \in DOMAIN defs : defs[c].required}}

\* the value is not null and, when a string, is not blank
HasValue(val) == val.t # "null" /\ (IsStr(val) => Strip(val.s) # <<>>)

\* the keys of the k-th step's inputs that its atom does not declare, the required
\* inputs that are not given, and those given without a value
UndeclaredKeys(k) == Keys(PlanSteps[k].inputs.m) \ DeclaredInputs(k)
AbsentInputs(k) == RequiredInputs(k) \ Keys(PlanSteps[k].inputs.m)
EmptyInputs(k) ==
    {n \in RequiredInputs(k) \cap Keys(PlanSteps[k].inputs.m) :
        ~HasValue(Lookup(PlanSteps[k].inputs.m, n))}

\* C16: for every step of a schema-valid plan that is bound to an atom of the
\* registry, the result holds one UNKNOWN_INPUT_FIELD error for each key of inputs
\* the atom does not declare and one MISSING_REQUIRED_INPUT error for each required
\* input that is not given, is null or is a blank string; a valid plan has no such
\* key and no such input.
C16_InputsMatchDeclaration ==
    (Validated /\ SchemaValid) =>
        \A k \in {j \in DOMAIN PlanSteps : BoundToAtom(j)} :
            LET unknown == ErrorsAt("UNKNOWN_INPUT_FIELD", k)
                missing == ErrorsAt("MISSING_REQUIRED_INPUT", k)
            IN  /\ Cardinality(unknown) = Cardinality(UndeclaredKeys(k))
                /\ {ReportedErrors[e].names : e \in unknown} = {<<key>> : key \in UndeclaredKeys(k)}
                /\ Cardinality(missing) = Cardinality(AbsentInputs(k)) + Cardinality(EmptyInputs(k))
                /\ {ReportedErrors[e].names : e \in {m \in missing : ReportedErrors[m].field = "inputs.<name>"}}
                       = {<<n>> : n \in EmptyInputs(k)}
                /\ Cardinality({m \in missing : ReportedErrors[m].field = "inputs"})
                       = Cardinality(AbsentInputs(k))
                /\ IsValid => UndeclaredKeys(k) \cup AbsentInputs(k) \cup EmptyInputs(k) = {}

\* a plan with a bound step that has an undeclared key and a bound step whose required
\* input is a blank string, both reported
C16_Witness ==
    /\ Validated /\ SchemaValid
    /\ \E j, k \in DOMAIN PlanSteps :
          /\ BoundToAtom(j) /\ BoundToAtom(k)
          /\ UndeclaredKeys(j) # {}
          /\ \E n \in EmptyInputs(k) : Lookup(PlanSteps[k].inputs.m, n).t = "str"
          /\ ErrorsAt("UNKNOWN_INPUT_FIELD", j) # {}
          /\ ErrorsAt("MISSING_REQUIRED_INPUT", k) # {}

\* the entries of the k-th step's depends_on list
DependsOnEntries(k) ==
    IF IsList(PlanSteps[k].depends_on) THEN PlanSteps[k].depends_on.l ELSE <<>>

\* the graph validate_plan builds for the plan
BuiltGraph == BuildGraph(PlanSteps, StepIds(PlanSteps), Registry).graph

\* the entry names a step of the plan, and the graph has the edge from that step to
\* the k-th step
ResolvesWithEdge(entry, k) ==
    /\ IsStr(entry)
    /\ \E a \in DOMAIN PlanSteps : Denotes(Strip(entry.s), a) /\ InSeq(k - 1, BuiltGraph[a - 1])

\* C17: for every entry of every step's depends_on list, whatever its value, either
\* the entry resolves to the effective id of a step and the edge from that step to
\* the dependent is in the graph, or UNKNOWN_DEPENDENCY is reported for it at the
\* dependent; a valid plan has an edge for every depends_on entry.
C17_EveryEntryEdgeOrError ==
    (Validated /\ SchemaValid) =>
        \A k \in DOMAIN PlanSteps :
            LET deps == DependsOnEntries(k)
                unresolved == {j \in DOMAIN deps : ~ResolvesWithEdge(deps[j], k)}
            IN  /\ Cardinality(ErrorsAt("UNKNOWN_DEPENDENCY", k)) = Cardinality(unresolved)
                /\ IsValid => unresolved = {}

\* the positions of the entries of the k-th step's inputs whose value is a reference
RefEntries(k) ==
    LET inputs == PlanSteps[k].inputs.m
    IN  {j \in DOMAIN inputs : IsRef(inputs[j].v)}

\* the step id and the output name the reference at position j of the k-th step names
RefStepId(k, j) == ParseRef(PlanSteps[k].inputs.m[j].v)[1]
RefOutputName(k, j) == ParseRef(PlanSteps[k].inputs.m[j].v)[2]

\* the reference names no step of the plan
RefToUnknownStep(k, j) == \A a \in DOMAIN PlanSteps : EffectiveId(a) # RefStepId(k, j)

\* the reference names the step a, whose atom declares the output it names
RefToOutputOf(k, j, a) ==
    /\ Denotes(RefStepId(k, j), a)
    /\ BoundToAtom(a)
    /\ \E o \in DOMAIN Registry[PlanSteps[a].id.s].outputs :
          Registry[PlanSteps[a].id.s].outputs[o].name = RefOutputName(k, j)

\* C18: for every input value of a schema-valid plan that is a reference, the result
\* holds UNKNOWN_STEP_REF at the step when the referenced id is no effective id of
\* the plan, UNKNOWN_OUTPUT_FIELD when the referenced step's atom declares no output
\* of that name, and otherwise the graph has the edge from the referenced step to
\* the referencing one; every reference of a valid plan names a step of the plan and
\* a declared output of its atom.
C18_ReferencesChecked ==
    (Validated /\ SchemaValid) =>
        \A k \in DOMAIN PlanSteps :
            LET unknown == {j \in RefEntries(k) : RefToUnknownStep(k, j)}
                good == {j \in RefEntries(k) : \E a \in DOMAIN PlanSteps : RefToOutputOf(k, j, a)}
                nofield == (RefEntries(k) \ unknown) \ good
            IN  /\ Cardinality(ErrorsAt("UNKNOWN_STEP_REF", k)) = Cardinality(unknown)
                /\ {ReportedErrors[e].names : e \in ErrorsAt("UNKNOWN_STEP_REF", k)}
                       = {<<RefStepId(k, j)>> : j \in unknown}
                /\ Cardinality(ErrorsAt("UNKNOWN_OUTPUT_FIELD", k)) = Cardinality(nofield)
                /\ {ReportedErrors[e].names : e \in ErrorsAt("UNKNOWN_OUTPUT_FIELD", k)}
                       = {<<RefStepId(k, j), RefOutputName(k, j)>> : j \in nofield}
                /\ \A j \in good : \A a \in DOMAIN PlanSteps :
                      RefToOutputOf(k, j, a) => InSeq(k - 1, BuiltGraph[a - 1])
                /\ IsValid => RefEntries(k) = good

\* a plan with a reference to a step that does not exist and a reference to an output
\* the referenced step's atom does not declare, both reported
C18_Witness ==
    /\ Validated /\ SchemaValid
    /\ \E k, l \in DOMAIN PlanSteps :
          /\ \E j \in RefEntries(k) : RefToUnknownStep(k, j)
          /\ \E j \in RefEntries(l) :
                /\ ~RefToUnknownStep(l, j)
                /\ \A a \in DOMAIN PlanSteps : ~RefToOutputOf(l, j, a)
          /\ ErrorsAt("UNKNOWN_STEP_REF", k) # {}
          /\ ErrorsAt("UNKNOWN_OUTPUT_FIELD", l) # {}

SchemaCodes == {"MISSING_FIELD", "INVALID_TYPE", "EMPTY_STEPS", "EMPTY_STEP_ID"}

SemanticCodes ==
    {"DUPLICATE_STEP_ID", "UNKNOWN_ATOM_ID", "UNKNOWN_INPUT_FIELD", "MISSING_REQUIRED_INPUT",
     "UNKNOWN_DEPENDENCY", "UNKNOWN_STEP_REF", "UNKNOWN_OUTPUT_FIELD", "CIRCULAR_DEPENDENCY"}

\* the codes of the errors of the validation result
ReportedCodes == {ReportedErrors[e].code : e \in DOMAIN ReportedErrors}

\* C19: a validate_plan result that holds a schema error (MISSING_FIELD, INVALID_TYPE,
\* EMPTY_STEPS, EMPTY_STEP_ID) holds no error of a semantic stage, and a plan that
\* breaks the schema gets schema errors only.
C19_SchemaErrorsStopSemantics ==
    Validated =>
        /\ ReportedCodes \cap SchemaCodes # {} => ReportedCodes \cap SemanticCodes = {}
        /\ ~SchemaValid => ReportedCodes # {} /\ ReportedCodes \subseteq SchemaCodes
        /\ ReportedCodes \subseteq SchemaCodes \cup SemanticCodes

\* a plan rejected with schema errors whose second step repeats the id of the first
\* and is bound to no atom of the registry
C19_Witness ==
    /\ Validated
    /\ ReportedCodes \cap SchemaCodes # {}
    /\ plan_doc.t = "doc" /\ IsList(DocSteps(plan_doc))
    /\ Len(PlanSteps) = 2
    /\ \A k \in DOMAIN PlanSteps : IsStepObj(PlanSteps[k])
    /\ RepeatsEarlierId(2)
    /\ ~BoundToAtom(2)

\* the schema errors of the validation result
SchemaErrors == {e \in DOMAIN ReportedErrors : ReportedErrors[e].code \in SchemaCodes}

\* the stage of section 4.1 a schema error belongs to, read from its path: 1 for the
\* root, target and plan, 2 for plan.steps, 3 for a field of a step, 4 for plan.outputs
StageOf(e) ==
    IF ReportedErrors[e].at >= 0 THEN 3
    ELSE IF ReportedErrors[e].field = "plan.steps" THEN 2
    ELSE IF ReportedErrors[e].field = "plan.outputs" THEN 4
    ELSE 1

\* the return of validate_plan a schema error leaves by: the one after the checks of
\* the root and of plan.steps, or the one after the checks of the steps and of
\* plan.outputs
GroupOf(e) == IF StageOf(e) \in {1, 2} THEN 1 ELSE 2

\* C20 as stated: the schema errors of one result all come from one of the four
\* stages.
C20_Original ==
    Validated => \A e, f \in SchemaErrors : StageOf(e) = StageOf(f)

\* C20: the schema checks stop at two places: after the checks of the root, target,
\* plan and plan.steps, which report together, and after the checks of the step
\* fields and plan.outputs, which report together; the schema errors of one result
\* all come from one of these two groups, and the error of a root that is no object
\* is reported alone.
C20_TwoSchemaGroups ==
    Validated =>
        /\ \A e, f \in SchemaErrors : GroupOf(e) = GroupOf(f)
        /\ \A e \in SchemaErrors :
              (ReportedErrors[e].at = -1 /\ ReportedErrors[e].field = "") =>
                  Len(ReportedErrors) = 1

\* a result that holds an error of a step field together with the plan.outputs error
C20_Witness ==
    /\ Validated
    /\ \E e, f \in SchemaErrors : StageOf(e) = 3 /\ StageOf(f) = 4

IdentityCodes == {"DUPLICATE_STEP_ID"}
BindingCodes == {"UNKNOWN_ATOM_ID", "UNKNOWN_INPUT_FIELD", "MISSING_REQUIRED_INPUT"}
GraphCodes == {"UNKNOWN_DEPENDENCY", "UNKNOWN_STEP_REF", "UNKNOWN_OUTPUT_FIELD"}

\* the semantic stage an error code belongs to (4: the sort)
SemanticStage(code) ==
    IF code \in IdentityCodes THEN 1
    ELSE IF code \in BindingCodes THEN 2
    ELSE IF code \in GraphCodes THEN 3
    ELSE 4

\* a step whose non-empty id has no registry entry, and a depends_on entry that is a
\* string naming no step
HasUnknownAtom ==
    \E k \in DOMAIN PlanSteps : ~BoundToAtom(k) /\ PlanSteps[k].id.s # <<>>

HasUnknownDependency ==
    \E k \in DOMAIN PlanSteps : \E j \in DOMAIN DependsOnEntries(k) :
        /\ IsStr(DependsOnEntries(k)[j])
        /\ \A a \in DOMAIN PlanSteps : EffectiveId(a) # Strip(DependsOnEntries(k)[j].s)

\* C21 as stated: the semantic stages run fail-fast, so a result with
\* DUPLICATE_STEP_ID holds no binding and no graph error, and a result with a
\* binding error holds no graph error.
C21_Original ==
    Validated =>
        /\ ReportedCodes \cap IdentityCodes # {} => ReportedCodes \cap (BindingCodes \cup GraphCodes) = {}
        /\ ReportedCodes \cap BindingCodes # {} => ReportedCodes \cap GraphCodes = {}

\* C21: on a schema-valid plan the identity, binding and graph stages all run and
\* their errors are reported together, in stage order: a duplicate id does not hide
\* an unknown atom or an unknown dependency, nor an unknown atom an unknown
\* dependency; only the sort is skipped when a stage reported an error, so
\* CIRCULAR_DEPENDENCY is never reported with an error of another stage.
C21_StagesAccumulate ==
    (Validated /\ SchemaValid) =>
        /\ \A e, f \in DOMAIN ReportedErrors :
              e < f => SemanticStage(ReportedErrors[e].code) <= SemanticStage(ReportedErrors[f].code)
        /\ (\E k \in DOMAIN PlanSteps : RepeatsEarlierId(k)) => "DUPLICATE_STEP_ID" \in ReportedCodes
        /\ HasUnknownAtom => "UNKNOWN_ATOM_ID" \in ReportedCodes
        /\ HasUnknownDependency => "UNKNOWN_DEPENDENCY" \in ReportedCodes
        /\ "CIRCULAR_DEPENDENCY" \in ReportedCodes => ReportedCodes = {"CIRCULAR_DEPENDENCY"}

\* a result that holds a duplicate id, an unknown atom and an unknown dependency
C21_Witness ==
    /\ Validated /\ SchemaValid
    /\ {"DUPLICATE_STEP_ID", "UNKNOWN_ATOM_ID", "UNKNOWN_DEPENDENCY"} \subseteq ReportedCodes

\* the k-th step lies on a cycle of the dependency graph
OnCycle(k) == ReachIn(k, k, Len(PlanSteps))

\* the steps no topological order can place: those on a cycle and those reached from one
Unplaceable ==
    {k \in DOMAIN PlanSteps :
        \E c \in DOMAIN PlanSteps : OnCycle(c) /\ (c = k \/ ReachIn(c, k, Len(PlanSteps)))}

\* the sequence names lists the effective ids of the steps in S, in declaration order
NamesInOrder(names, S) ==
    /\ Len(names) = Cardinality(S)
    /\ {names[i] : i \in DOMAIN names} = {EffectiveId(k) : k \in S}
    /\ \A i, j \in DOMAIN names :
          i < j => \E a, b \in S : a < b /\ EffectiveId(a) = names[i] /\ EffectiveId(b) = names[j]

\* C22: a result that reports CIRCULAR_DEPENDENCY holds that error alone, once, has
\* valid = false and no execution_order, and the error names the effective ids of
\* exactly the steps the sort could not place: those on a cycle and those that
\* depend on one.
C22_CircularErrorAlone ==
    (Validated /\ "CIRCULAR_DEPENDENCY" \in ReportedCodes) =>
        /\ Len(ReportedErrors) = 1
        /\ ~validation.valid
        /\ "execution_order" \notin DOMAIN validation
        /\ Unplaceable # {}
        /\ NamesInOrder(ReportedErrors[1].names, Unplaceable)

\* a circular plan in which one step was placed and one of the steps left over only
\* depends on a cycle
C22_Witness ==
    /\ Validated /\ "CIRCULAR_DEPENDENCY" \in ReportedCodes
    /\ Unplaceable # DOMAIN PlanSteps
    /\ \E k \in Unplaceable : ~OnCycle(k)

\* POST /plan has built its response
PlanResponded == mode = "pipeline" /\ pc \in {"responded", "returned"}

\* C23: POST /plan runs execute exactly when validate_plan returned valid = true: the
\* response's execution is null exactly when the validation failed, and for a plan
\* that failed validation execute is not entered and no action is invoked.
C23_ExecutesIffValid ==
    mode = "pipeline" =>
        /\ PlanResponded => (execution = NoExecution <=> ~IsValid)
        /\ (Validated /\ ~IsValid) =>
              /\ calls = <<>> /\ step_results = <<>> /\ order = <<>>
              /\ pc \in {"validated", "responded"}
        /\ pc = "responded" => ~IsValid
        /\ pc \in {"loop", "invoking", "returned", "raised"} => IsValid

\* the response for a plan that failed validation
C23_Witness ==
    /\ PlanResponded
    /\ ~IsValid
    /\ validation.errors # <<>>
    /\ execution = NoExecution

\* POST /execute has merged the user inputs and validated the merged plan
Revalidated == mode = "execute" /\ pc \notin {"merge", "request"}

\* C24: POST /execute validates the plan after the merge and runs execute with that
\* validation only: the validation of the request is never the one execute sees, a
\* plan that fails the validation after the merge has no action invoked and gets
\* the execution {success: false, step_results: [], error}, and execute is entered
\* only for a merged plan that is valid.
C24_RevalidatesAfterMerge ==
    mode = "execute" =>
        /\ Revalidated => validation = ValidatePlan(plan_doc, Registry)
        /\ (Revalidated /\ ~IsValid) =>
              /\ calls = <<>> /\ step_results = <<>> /\ order = <<>>
              /\ pc \in {"validated", "responded"}
        /\ pc = "responded" =>
              /\ ~IsValid
              /\ execution.success = FALSE
              /\ execution.step_results = <<>>
              /\ execution.error.text = "Plan validation failed after applying user inputs."
        /\ pc \in {"loop", "invoking", "returned", "raised"} =>
              IsValid /\ order = validation.execution_order

\* a request that came with a validation marked valid, whose plan is not valid after
\* the merge, answered with the structured failure
C24_Witness ==
    /\ mode = "execute" /\ pc = "responded"
    /\ request.validation # NoValidation /\ request.validation.valid
    /\ request.plan # plan_doc
    /\ ~IsValid
    /\ execution.success = FALSE

\* the steps of the plan as the POST /execute request sent it, and after the merge
SentSteps == request.plan.plan.steps.l
MergedSteps == plan_doc.plan.steps.l

\* the user_inputs entry for the k-th step of the request: the mapping found under
\* the step's stripped step_id, or under its index when it has none; empty when
\* there is no entry
UserEntry(k) ==
    LET sid == SentSteps[k].step_id
        name == IF IsStr(sid) /\ Strip(sid.s) # <<>> THEN Strip(sid.s) ELSE IntToStr(k - 1)
        hits == {e \in DOMAIN request.user_inputs : request.user_inputs[e].k = name}
    IN  IF hits = {} THEN <<>> ELSE request.user_inputs[CHOOSE e \in hits : TRUE].v

\* the inputs of the k-th step as the request sent them, as a mapping
SentInputs(k) == IF IsObj(SentSteps[k].inputs) THEN SentSteps[k].inputs.m ELSE <<>>

\* C25: after the merge of POST /execute every step that has a user_inputs entry
\* under its effective id has as inputs its existing inputs overlaid with that
\* entry (the user's value on every key of the entry, the existing value on every
\* other key, and no further key), every other step is unchanged, and nothing but
\* the inputs of a step changes.
C25_MergeOverlaysUserInputs ==
    (mode = "execute" /\ pc # "merge") =>
        /\ Len(MergedSteps) = Len(SentSteps)
        /\ plan_doc.target = request.plan.target
        /\ plan_doc.plan.outputs = request.plan.plan.outputs
        /\ \A k \in DOMAIN SentSteps :
              IF ~IsStepObj(SentSteps[k]) \/ UserEntry(k) = <<>>
              THEN MergedSteps[k] = SentSteps[k]
              ELSE LET merged == MergedSteps[k].inputs
                   IN  /\ MergedSteps[k] = [SentSteps[k] EXCEPT !.inputs = merged]
                       /\ IsObj(merged)
                       /\ Len(merged.m) = Cardinality(Keys(merged.m))
                       /\ Keys(merged.m) = Keys(SentInputs(k)) \cup Keys(UserEntry(k))
                       /\ \A key \in Keys(UserEntry(k)) :
                             Lookup(merged.m, key) = Lookup(UserEntry(k), key)
                       /\ \A key \in Keys(SentInputs(k)) \ Keys(UserEntry(k)) :
                             Lookup(merged.m, key) = Lookup(SentInputs(k), key)

\* a merged plan in which a step named by step_id took the user's value for an input
\* it had, and a step named by its index kept an input the user did not give
C25_Witness ==
    /\ mode = "execute" /\ pc # "merge"
    /\ \E j, k \in DOMAIN SentSteps :
          /\ IsStepObj(SentSteps[j]) /\ IsStepObj(SentSteps[k])
          /\ IsStr(SentSteps[j].step_id)
          /\ \E key \in Keys(UserEntry(j)) \cap Keys(SentInputs(j)) :
                Lookup(MergedSteps[j].inputs.m, key) # Lookup(SentInputs(j), key)
          /\ ~Has(SentSteps[k].step_id)
          /\ UserEntry(k) # <<>>
          /\ Keys(SentInputs(k)) \ Keys(UserEntry(k)) # {}

\* C26: validate_plan and execute never modify the capability registry or the plan
\* document they are given: every step of the validator and of the executor (every
\* step but the merge of the user inputs, which the route does before it calls them)
\* leaves the plan document and the registry equal to their values before the step.
C26_PlanAndRegistryUnchanged ==
    [][pc # "merge" => plan_doc' = plan_doc /\ atoms_registry' = atoms_registry]_vars

\* a run has returned after an invocation whose resolved inputs differ from the inputs
\* of its step in the plan, which still holds the reference
C26_Witness ==
    /\ pc = "returned"
    /\ execution.success
    /\ atoms_registry = <<Registry>>
    /\ \E c \in DOMAIN calls : \E k \in DOMAIN PlanSteps :
          /\ EffectiveId(k) = calls[c].step_id
          /\ IsObj(PlanSteps[k].inputs)
          /\ \E j \in DOMAIN PlanSteps[k].inputs.m : IsRef(PlanSteps[k].inputs.m[j].v)
          /\ PlanSteps[k].inputs.m # calls[c].inputs

\* C27: under any interleaving of concurrent requests to /plan and /execute,
\* load_atoms_registry is called at most once in the process, and every request gets
\* the same registry from get_atoms_registry.
C27_RegistryConstructedOnce ==
    /\ loads <= 1
    /\ \A t, u \in DOMAIN threads :
          threads[t].registry # <<>> /\ threads[u].registry # <<>>
              => threads[t].registry = threads[u].registry

\* the threads that are inside a run of execute
Running == {t \in DOMAIN threads : threads[t].pc \in {"loop", "invoking"}}

\* the outputs run t recorded for step sid, as its own step_results tell them
RecordedBy(t, sid) ==
    {threads[t].step_results[q].outputs :
        q \in {p \in DOMAIN threads[t].step_results :
                  /\ threads[t].step_results[p].step_id = sid
                  /\ threads[t].step_results[p].status = "completed"}}

\* the step of its plan that thread t is invoking
InvokedStep(t) ==
    LET steps == ExecSteps(ThreadPlan(threads[t].kind))
    IN  steps[CHOOSE k \in DOMAIN steps :
                 LookupIdentifier(steps[k], k - 1) = threads[t].active[1].step_id]

\* C28: the context is private to one run of execute.  Every run starts with an empty
\* context; whatever its context holds was recorded by a completed step of this very
\* run, with the outputs this run got; and the value a reference resolves to is the
\* output this run recorded, whether the other runs came before it on the same thread
\* or go on at the same time on other threads.
C28_ContextPrivateToRun ==
    \A t \in Running :
        /\ threads[t].idx = 0 => threads[t].context = <<>>
        /\ \A j \in DOMAIN threads[t].context :
              threads[t].context[j].v \in RecordedBy(t, threads[t].context[j].k)
        /\ threads[t].pc = "invoking" =>
              \A j \in DOMAIN InvokedStep(t).inputs.m :
                 LET entry == InvokedStep(t).inputs.m[j]
                     given == DictGet(threads[t].active[1].inputs, entry.k)
                 IN  IsRef(entry.v) =>
                        \E outputs \in RecordedBy(t, ParseRef(entry.v)[1]) :
                            DictGet(outputs, ParseRef(entry.v)[2]) = given

\* two runs of the same plan are at their second step at the same time and hold
\* different outputs for the first step
C28_Witness ==
    \E t, u \in DOMAIN threads :
        /\ t # u
        /\ threads[t].pc = "invoking" /\ threads[u].pc = "invoking"
        /\ threads[t].kind = threads[u].kind
        /\ threads[t].idx = 1 /\ threads[u].idx = 1
        /\ threads[t].context # <<>>
        /\ threads[t].context # threads[u].context

\* the declared output names of the capability a completed step was bound to, in the
\* order of the declaration; none when the registry has no such capability
DeclaredOutputs(atom_id) ==
    IF atom_id \in DOMAIN Registry
    THEN [k \in DOMAIN Registry[atom_id].outputs |-> Registry[atom_id].outputs[k].name]
    ELSE <<>>

\* the completed results of the run so far; the k-th of them belongs to the k-th call
CompletedResults == {k \in DOMAIN step_results : step_results[k].status = "completed"}

\* the mapping of all declared names, each pulled from the returned mapping, null
\* when the returned mapping has no such key
PulledFrom(returned, names, outputs) ==
    /\ Keys(outputs) = {names[n] : n \in DOMAIN names}
    /\ Len(outputs) = Len(names)
    /\ \A n \in DOMAIN names :
          DictGet(outputs, names[n]) =
              IF names[n] \in Keys(returned.m)
              THEN DictGet(returned.m, names[n]) ELSE <<Null>>

\* the last completed result for its step id is the one the context holds
RecordedInContext(k) ==
    (\A j \in CompletedResults : step_results[j].step_id = step_results[k].step_id => j <= k)
        => DictGet(context, step_results[k].step_id) = <<step_results[k].outputs>>

\* C29 as stated: with several declared outputs the recorded mapping has exactly the
\* declared names as its keys, whatever the action returned.
C29_Original ==
    \A k \in CompletedResults :
        LET names == DeclaredOutputs(step_results[k].atom_id)
            returned == calls[k].returned
            outputs == step_results[k].outputs
        IN  /\ RecordedInContext(k)
            /\ Len(names) = 0 => outputs = <<>>
            /\ Len(names) = 1 => outputs = <<Entry(names[1], returned)>>
            /\ Len(names) > 1 =>
                  /\ Keys(outputs) = {names[n] : n \in DOMAIN names}
                  /\ IsObj(returned) => PulledFrom(returned, names, outputs)

\* C29: for every completed step, the outputs recorded in the context and in the
\* StepResult follow the declared output list: no declared output gives the empty
\* mapping; exactly one gives {name: return value}; several give, when the action
\* returned a mapping, the mapping of all the declared names, each pulled from the
\* returned mapping and null when absent from it, and, when the action returned
\* anything else, {first declared name: return value}.
C29_OutputsFollowDeclaration ==
    \A k \in CompletedResults :
        LET names == DeclaredOutputs(step_results[k].atom_id)
            returned == calls[k].returned
            outputs == step_results[k].outputs
        IN  /\ RecordedInContext(k)
            /\ Len(names) = 0 => outputs = <<>>
            /\ Len(names) = 1 => outputs = <<Entry(names[1], returned)>>
            /\ Len(names) > 1 /\ IsObj(returned) => PulledFrom(returned, names, outputs)
            /\ Len(names) > 1 /\ ~IsObj(returned) => outputs = <<Entry(names[1], returned)>>

\* a step bound to a capability of two declared outputs has completed on a returned
\* mapping that lacks the second of them, and the run has also completed a step of one
\* declared output or of none
C29_Witness ==
    /\ \E k \in CompletedResults :
          /\ Len(DeclaredOutputs(step_results[k].atom_id)) = 2
          /\ IsObj(calls[k].returned)
          /\ Keys(calls[k].returned.m) # Keys(step_results[k].outputs)
    /\ \E k \in CompletedResults : Len(DeclaredOutputs(step_results[k].atom_id)) < 2

\* the inputs mapping execute hands to _resolve_inputs for the step it is invoking or
\* has failed on: step.get("inputs") or {}
RawInputs(step_id) ==
    LET step == StepLookupGet(ExecSteps(plan_doc), step_id)[1]
    IN  IF Truthy(step.inputs) THEN step.inputs.m ELSE <<>>

\* the reference entry reads an output the context does not hold
Unresolvable(entry) ==
    \/ DictGet(context, ParseRef(entry.v)[1]) = <<>>
    \/ DictGet(DictGet(context, ParseRef(entry.v)[1])[1], ParseRef(entry.v)[2]) = <<>>

\* the run has ended on a step whose inputs could not be resolved
FailedToResolve ==
    /\ pc = "returned"
    /\ step_results # <<>>
    /\ step_results[Len(step_results)].status = "failed"
    /\ step_results[Len(step_results)].error.code = "UNRESOLVED_REF"

\* C30: _resolve_inputs returns a mapping with exactly the keys of the step's inputs,
\* where a reference expression is replaced by context[step][output] and every other
\* value, string or not, is passed through unchanged; when a reference names a step
\* without a context entry, or an output key its entry does not have, it fails with
\* UNRESOLVED_REF and there are no resolved inputs (the action is not invoked).
C30_ResolveInputs ==
    /\ pc = "invoking" =>
          LET raw == RawInputs(active[1].step_id)
              resolved == active[1].inputs
          IN  /\ Len(resolved) = Len(raw)
              /\ \A j \in DOMAIN raw :
                    /\ resolved[j].k = raw[j].k
                    /\ IF IsRef(raw[j].v)
                       THEN /\ ~Unresolvable(raw[j])
                            /\ resolved[j].v =
                                  DictGet(DictGet(context, ParseRef(raw[j].v)[1])[1],
                                          ParseRef(raw[j].v)[2])[1]
                       ELSE resolved[j].v = raw[j].v
    /\ FailedToResolve =>
          LET failed == step_results[Len(step_results)]
              raw == RawInputs(failed.step_id)
          IN  /\ \E j \in DOMAIN raw : IsRef(raw[j].v) /\ Unresolvable(raw[j])
              /\ Len(calls) = Len(step_results) - 1
              /\ failed.outputs = <<>>

\* an invocation whose step has a reference with blanks around it, resolved from the
\* context, next to states the model reaches with a number and a string that only
\* resembles a reference passed through
C30_Witness ==
    /\ pc = "invoking"
    /\ \E j \in DOMAIN RawInputs(active[1].step_id) :
          LET v == RawInputs(active[1].step_id)[j].v
          IN  IsRef(v) /\ Strip(v.s) # v.s
    /\ \E c \in DOMAIN calls : \E j \in DOMAIN calls[c].inputs :
          LET v == calls[c].inputs[j].v
          IN  IsStr(v) /\ v.s # <<>> /\ v.s[1] = "$" /\ ~IsRef(v)

\* how many entries of b's depends_on name a
NamedTimes(b, a) ==
    LET d == PlanSteps[b].depends_on
    IN  IF IsList(d)
        THEN Cardinality({j \in DOMAIN d.l : IsStr(d.l[j]) /\ Denotes(Strip(d.l[j].s), a)})
        ELSE 0

\* how often the successor list of a holds b
EdgeTimes(a, b) == Count(b - 1, BuiltGraph[a - 1])

\* C31 as stated: the graph is an edge set, and the in-degree of a step is the number
\* of its distinct predecessors.
C31_Original ==
    (Validated /\ SchemaValid) =>
        \A b \in DOMAIN PlanSteps :
            /\ \A a \in DOMAIN PlanSteps : EdgeTimes(a, b) = IF DepEdge(a, b) THEN 1 ELSE 0
            /\ InDegree(BuiltGraph)[b - 1] = Cardinality({a \in DOMAIN PlanSteps : DepEdge(a, b)})

\* C31: the successor list of a producer holds a consumer once for every depends_on
\* entry of the consumer that names the producer, and once more only when no
\* depends_on entry names it and an input of the consumer references one of its
\* outputs: references never add a second edge, repeated depends_on entries do.  The
\* in-degree of a step is the number of these occurrences, which is at least the
\* number of its distinct predecessors.
C31_EdgesPerEntry ==
    (Validated /\ SchemaValid) =>
        \A b \in DOMAIN PlanSteps :
            /\ \A a \in DOMAIN PlanSteps :
                  EdgeTimes(a, b) =
                      IF NamedTimes(b, a) > 0 THEN NamedTimes(b, a)
                      ELSE IF ReferencesOutputOf(b, a) THEN 1 ELSE 0
            /\ InDegree(BuiltGraph)[b - 1] >= Cardinality({a \in DOMAIN PlanSteps : DepEdge(a, b)})
            /\ InDegree(BuiltGraph)[b - 1] =
                  SumOver([a \in DOMAIN PlanSteps |-> EdgeTimes(a, b)], DOMAIN PlanSteps)

\* a valid plan in which one step names the same dependency twice in depends_on, and
\* the graph holds the edge twice
C31_Witness ==
    /\ Validated /\ SchemaValid /\ IsValid
    /\ \E a, b \in DOMAIN PlanSteps : NamedTimes(b, a) = 2 /\ EdgeTimes(a, b) = 2

\* the steps the CIRCULAR_DEPENDENCY error names
NamedCircular ==
    {k \in DOMAIN PlanSteps :
        \E e \in DOMAIN ReportedErrors :
            /\ ReportedErrors[e].code = "CIRCULAR_DEPENDENCY"
            /\ \E n \in DOMAIN ReportedErrors[e].names : ReportedErrors[e].names[n] = EffectiveId(k)}

\* the sort has placed fewer steps than the plan has
SortFellShort == Validated /\ SchemaValid /\ "CIRCULAR_DEPENDENCY" \in ReportedCodes

\* C32 as stated: every step named in the CIRCULAR_DEPENDENCY error lies on a cycle.
C32_Original == SortFellShort => \A k \in NamedCircular : OnCycle(k)

\* C32: when the sort places fewer steps than the plan has, at least one step named in
\* the CIRCULAR_DEPENDENCY error lies on a cycle of the dependency graph, and every
\* named step either lies on a cycle or has a named predecessor (it is reached from a
\* cycle along dependency edges); no placed step is named.
C32_NamedOnOrBehindCycle ==
    SortFellShort =>
        /\ \E k \in NamedCircular : OnCycle(k)
        /\ \A k \in NamedCircular :
              \/ OnCycle(k)
              \/ /\ \E a \in NamedCircular : DepEdge(a, k)
                 /\ \E c \in NamedCircular : OnCycle(c) /\ ReachIn(c, k, Len(PlanSteps))
        /\ \A k \in DOMAIN PlanSteps \ NamedCircular :
              \A a \in DOMAIN PlanSteps : DepEdge(a, k) => a \notin NamedCircular

\* a step depends on itself, a second step depends on the first and is named although
\* it is on no cycle, and a third step is placed
C32_Witness ==
    /\ SortFellShort
    /\ \E k \in NamedCircular : ~OnCycle(k)
    /\ \E k \in NamedCircular : DepEdge(k, k)
    /\ NamedCircular # DOMAIN PlanSteps

\* the run has ended on a failed step: the failed result is the last one
EndedOnFailure ==
    /\ pc = "returned"
    /\ step_results # <<>>
    /\ step_results[Len(step_results)].status = "failed"

\* the step the executor's lookup gives for the id, as a sequence of length 0 or 1
FoundStep(step_id) == StepLookupGet(ExecSteps(plan_doc), step_id)

\* an input of the step holds a reference the context cannot resolve
HasUnresolvableRef(step_id) ==
    \E j \in DOMAIN RawInputs(step_id) :
        IsRef(RawInputs(step_id)[j].v) /\ Unresolvable(RawInputs(step_id)[j])

\* C33: for each step, execute checks in the order step lookup, capability resolution,
\* input resolution, invocation.  An action is being invoked only for a step that was
\* found, whose capability resolved and whose references all resolved; a step that
\* fails one of the three checks is not invoked, and it fails with the code of the
\* first check it fails: STEP_NOT_FOUND before UNRESOLVED_ATOM, and UNRESOLVED_ATOM
\* before UNRESOLVED_REF even when its inputs hold an unresolvable reference.
C33_ChecksInFixedOrder ==
    /\ pc = "invoking" =>
          /\ FoundStep(active[1].step_id) # <<>>
          /\ ResolveCallable(active[1].atom_id).ok
          /\ ~HasUnresolvableRef(active[1].step_id)
    /\ EndedOnFailure =>
          LET failed == step_results[Len(step_results)]
              found == FoundStep(failed.step_id)
              code == failed.error.code
          IN  /\ code = "STEP_NOT_FOUND" <=> found = <<>>
              /\ found # <<>> =>
                    /\ code = "UNRESOLVED_ATOM" <=> ~ResolveCallable(failed.atom_id).ok
                    /\ (ResolveCallable(failed.atom_id).ok /\ HasUnresolvableRef(failed.step_id))
                          => code = "UNRESOLVED_REF"
                    /\ code = "UNRESOLVED_REF" => HasUnresolvableRef(failed.step_id)
              /\ code \in {"STEP_NOT_FOUND", "UNRESOLVED_ATOM", "UNRESOLVED_REF"}
                    => Len(calls) = Len(step_results) - 1
              /\ code = "STEP_EXECUTION_ERROR" => Len(calls) = Len(step_results)

\* a step whose capability cannot be resolved and whose input reads an output the
\* context does not hold has failed with UNRESOLVED_ATOM, and no action was invoked
C33_Witness ==
    /\ EndedOnFailure
    /\ FoundStep(step_results[Len(step_results)].step_id) # <<>>
    /\ HasUnresolvableRef(step_results[Len(step_results)].step_id)
    /\ ~ResolveCallable(step_results[Len(step_results)].atom_id).ok
    /\ step_results[Len(step_results)].error.code = "UNRESOLVED_ATOM"
    /\ calls = <<>>

\* the run is one of the validate-then-execute pipeline: POST /plan or POST /execute
InPipeline == mode \in {"pipeline", "execute"}

\* s is the beginning of t
IsPrefixOf(s, t) == Len(s) <= Len(t) /\ \A k \in DOMAIN s : t[k] = s[k]

ExecuteRunning == pc \in {"loop", "invoking"}

\* execute has returned an ExecutionResult
ReturnedResult == pc = "returned" /\ execution.success \in BOOLEAN

C36_EachStepPlacedOnce ==
    (Validated /\ SchemaValid) =>
        /\ IsValid \/ ReportedErrors # <<>>
        /\ IsValid =>
              /\ Len(ExecutionOrderOf(validation)) = Len(PlanSteps)
              /\ \A k \in DOMAIN PlanSteps :
                    Count(EffectiveId(k), ExecutionOrderOf(validation)) = 1
        /\ \A e \in DOMAIN ReportedErrors :
              ReportedErrors[e].code = "CIRCULAR_DEPENDENCY" =>
                  /\ HasCycle
                  /\ ReportedErrors[e].names # <<>>
                  /\ \A k \in DOMAIN PlanSteps :
                        Count(EffectiveId(k), ReportedErrors[e].names) <= 1

\* a valid plan of three steps in which a successor list holds the same step twice:
\* that step has in-degree two from one predecessor and the order holds it once,
\* after its predecessor
C36_Witness ==
    /\ Validated /\ SchemaValid /\ IsValid
    /\ Len(PlanSteps) = 3
    /\ \E a, c \in DOMAIN PlanSteps :
          /\ EdgeTimes(a, c) = 2
          /\ InDegree(BuiltGraph)[c - 1] = 2
          /\ Count(EffectiveId(c), ExecutionOrderOf(validation)) = 1
          /\ PosIn(ExecutionOrderOf(validation), EffectiveId(a))
                < PosIn(ExecutionOrderOf(validation), EffectiveId(c))

\* the steps to which validate_plan gives the id sid
AssignedTo(sid) == {k \in DOMAIN PlanSteps : EffectiveId(k) = sid}

\* the record (a call or a step result) is about the k-th step of the plan: it bears
\* the capability id of that step
BearsAtomOf(record, k) ==
    record.atom_id = (IF Has(PlanSteps[k].id) THEN PlanSteps[k].id.s ELSE <<>>)

\* the call was made with the inputs of the k-th step: the same keys, and every value
\* that is not a reference as the step has it
CalledWithInputsOf(call, k) ==
    LET raw == IF Truthy(PlanSteps[k].inputs) THEN PlanSteps[k].inputs.m ELSE <<>>
    IN  /\ Len(call.inputs) = Len(raw)
        /\ \A j \in DOMAIN raw :
              /\ call.inputs[j].k = raw[j].k
              /\ ~IsRef(raw[j].v) => call.inputs[j].v = raw[j].v

\* C37: in the validate-then-execute pipeline no step fails with STEP_NOT_FOUND: every
\* id of execution_order is the id validate_plan gave to exactly one step of the plan,
\* and every invocation and every step result recorded under an id is about that
\* step (its capability, its inputs).
C37_LookupAgreesWithValidator ==
    InPipeline =>
        /\ \A r \in DOMAIN step_results : step_results[r].error.code # "STEP_NOT_FOUND"
        /\ \A p \in DOMAIN order : Cardinality(AssignedTo(order[p])) = 1
        /\ \A r \in DOMAIN step_results :
              \A k \in AssignedTo(step_results[r].step_id) : BearsAtomOf(step_results[r], k)
        /\ \A c \in DOMAIN calls :
              \A k \in AssignedTo(calls[c].step_id) :
                  BearsAtomOf(calls[c], k) /\ CalledWithInputsOf(calls[c], k)

\* a pipeline run has invoked, in the order of their ids, a step whose step_id is
\* written with blanks around it and a step written without, each with its own inputs
C37_Witness ==
    /\ InPipeline
    /\ pc = "returned"
    /\ execution.success
    /\ Len(calls) = 2
    /\ \E a, b \in DOMAIN PlanSteps :
          /\ a # b
          /\ IsStr(Get(PlanSteps[a].step_id))
          /\ PlanSteps[a].step_id.s # EffectiveId(a)
          /\ calls[1].step_id = EffectiveId(a)
          /\ calls[2].step_id = EffectiveId(b)
          /\ PlanSteps[a].inputs # PlanSteps[b].inputs

\* the failed result r names a reference to the output out of a step that the call c
\* invoked: an input of the failed step reads ${step.outputs.out}
ReadsOutputOf(r, c, out) ==
    \E k \in AssignedTo(step_results[r].step_id) :
        LET raw == IF Truthy(PlanSteps[k].inputs) THEN PlanSteps[k].inputs.m ELSE <<>>
        IN  \E j \in DOMAIN raw :
                /\ IsRef(raw[j].v)
                /\ ParseRef(raw[j].v) = <<calls[c].step_id, out>>

\* the call c returned a value that is not a mapping from an action that declares
\* several outputs, of which out is not the first
ScalarForSeveral(c, out) ==
    LET declared == DeclaredOutputs(calls[c].atom_id)
    IN  /\ calls[c].fault = "none"
        /\ calls[c].returned # Absent
        /\ ~IsObj(calls[c].returned)
        /\ Len(declared) >= 2
        /\ \E d \in 2..Len(declared) : declared[d] = out

\* C38 as stated: in the pipeline, resolving a step's inputs never fails with
\* UNRESOLVED_REF.
C38_Original ==
    InPipeline => \A r \in DOMAIN step_results : step_results[r].error.code # "UNRESOLVED_REF"

\* C38: in the validate-then-execute pipeline for a valid plan, resolving a step's
\* inputs fails with UNRESOLVED_REF only in one case: the step reads an output, other
\* than the first declared one, of an earlier step whose action declares several
\* outputs and returned a value that is not a mapping.  When every earlier action with
\* several declared outputs returned a mapping, every reference resolves (an output the
\* mapping lacks resolves to null).
C38_RefsResolveUnlessScalar ==
    InPipeline =>
        \A r \in DOMAIN step_results :
            step_results[r].error.code = "UNRESOLVED_REF" =>
                /\ r = Len(step_results)
                /\ \E c \in DOMAIN calls :
                      \E out \in {N_r, N_s} : ReadsOutputOf(r, c, out) /\ ScalarForSeveral(c, out)

\* an action with two declared outputs returned a mapping that lacks the second one,
\* and the step that reads the second output was invoked with null for it
C38_Witness ==
    /\ InPipeline
    /\ Len(calls) = 2
    /\ IsObj(calls[1].returned)
    /\ Len(DeclaredOutputs(calls[1].atom_id)) = 2
    /\ DictGet(calls[1].returned.m, N_s) = <<>>
    /\ \E k \in AssignedTo(calls[2].step_id) :
          \E j \in DOMAIN PlanSteps[k].inputs.m :
              /\ IsRef(PlanSteps[k].inputs.m[j].v)
              /\ ParseRef(PlanSteps[k].inputs.m[j].v) = <<calls[1].step_id, N_s>>
              /\ calls[2].inputs[j].v = Null

\* plan has ended: it has returned a document or a fault has left it
PlanEnded == mode = "plan" /\ pc \in {"planned", "raised"}

\* the three cases of the fallback: no provider could be made, the LLM call raised,
\* the response could not be parsed
ProviderInitFailed == request.llm_provider = "none" /\ ~request.api_key
LLMCallFailed == calls # <<>> /\ calls[1].fault # "none"
ResponseUnparsable ==
    calls # <<>> /\ calls[1].fault = "none" /\ ~ParsePlanResponse(calls[1].returned).ok

\* C39: whenever the LLM provider cannot be initialised, the LLM call fails, or the
\* response cannot be parsed, plan propagates no fault and returns the mock plan for
\* the intent.
C39_FallsBackToMock ==
    (PlanEnded /\ (ProviderInitFailed \/ LLMCallFailed \/ ResponseUnparsable)) =>
        pc = "planned" /\ plan_doc = MockPlan(request.intent)

\* the part of C39 that holds: without a provider, after a fault of the except clause
\* or after a response that cannot be parsed, the mock plan is returned
C39_FallbackOnCaughtFaults ==
    (PlanEnded /\ (ProviderInitFailed \/ ResponseUnparsable
                   \/ (LLMCallFailed /\ calls[1].fault \in {"ValueError", "KeyError", "AttributeError"}))) =>
        pc = "planned" /\ plan_doc = MockPlan(request.intent)

\* the LLM call failed with a connection error and the fault has left plan
C39_FaultPropagates ==
    PlanEnded /\ LLMCallFailed /\ calls[1].fault = "APIConnectionError" /\ pc = "raised"

=============================================================================
